---- MODULE Spec2Model ----
(***************************************************************************)
(* PriceWatch: the scheduled batch run (scheduler.py), the scraper         *)
(* (scraper.py), the price store (database.py) and the job scheduling of   *)
(* the orchestrator.                                                       *)
(*                                                                         *)
(* Seven specifications share the module:                                  *)
(*   Spec          one batch run, PriceScheduler.scrape_all_products       *)
(*   SpecMany      PriceScraper.scrape_multiple (semaphore + gather)       *)
(*   SpecSched     the jobs registered on the orchestrator's scheduler     *)
(*   SpecParse     one call of PriceScraper._clean_price_text              *)
(*   SpecResolve   one call of PriceScraper._get_price_selectors           *)
(*   SpecFallback  one call of PriceScraper._fallback_price_extraction     *)
(*   SpecExtract   one call of PriceScraper.scrape_price                   *)
(* Each leaves the variables of the others at their initial values.        *)
(***************************************************************************)
EXTENDS Integers, Sequences, FiniteSets, TLC

(* ------------------------------------------------------------------ *)
(* Bounds of the model                                                  *)
(* ------------------------------------------------------------------ *)
MaxProducts == 3
MaxUrls == 5
MaxDue == 2

(* ------------------------------------------------------------------ *)
(* Program constants                                                    *)
(* ------------------------------------------------------------------ *)
\* notification_threshold: float = 5.0
NotificationThreshold == 5

\* Optional values: None is the empty sequence, Some(x) a one-element one.
None == <<>>
Some(x) == <<x>>

\* Prices the pages of the model can show. From the stored 100, 95 and 105 are
\* changes of exactly the threshold and 104 is one unit below it.
Prices == {95, 104, 105}

\* What the store can hold for a url before the run: nothing, or one reading.
InitHistories == {<<>>, <<100>>}

VARIABLES
  \* ---- the store (database.py) ----
  tracked,          \* rows of the products table, as get_products lists them
  prices,           \* prices[u]: the readings of url u, oldest first
  \* ---- PriceScheduler ----
  notification_manager, \* TRUE iff enable_notifications built a NotificationManager
  stats,            \* self.stats
  \* ---- one call of scrape_all_products ----
  pc,               \* "idle", "lookup", "scrape", "handle", "finish", "returned"
  products,         \* the list get_products returned to this run
  idx,              \* position of the for loop in products
  results,          \* the results dict
  previous_price,   \* local of the loop body
  scrape_result,    \* local of the loop body
  ret,              \* what the call returned, None before
  \* ---- history of the run (observations, not program state) ----
  log,              \* one record per item the loop has dealt with
  notifyChangeCalls,   \* the events handed to send_price_change_notification
  notifySummaryCalls,  \* the results dicts handed to send_scraping_summary
  appended,            \* number of add_price calls that committed in this run
  \* ---- one call of PriceScraper.scrape_multiple ----
  urls,             \* the argument
  manyPc,           \* "idle", "gather", "returned"
  semaphore,        \* the value of asyncio.Semaphore(3)
  task,             \* task[i]: "created", "running" (holds a permit), "done"
  gathered,         \* the list asyncio.gather is filling, None where not yet
  raw,              \* raw[i]: what the extraction of urls[i] returned or raised
  processed_results, \* the list the call returns
  \* ---- the orchestrator's scheduler (PriceScheduler + APScheduler) ----
  scheduler,        \* self.scheduler: "none" or "configured"
  is_running,       \* self.is_running
  jobs,             \* ids of the jobs added to the scheduler
  due,              \* due[j]: fire times of j that have passed and are not yet processed
  instances,        \* instances[j]: running instances of j the executor counts
  pending,          \* pending[j]: run times the running instance of j has still to serve
  in_batch,         \* jobs whose instance is inside scrape_all_products
  signalled,        \* SIGINT or SIGTERM has reached _signal_handler
  exit_code,        \* None while the process lives, Some(code) once sys.exit was called
  started_after_signal, \* history: a batch run was started after the signal
  runs_started,     \* history: batch runs started for the last submission of each job
  \* ---- one call of PriceScraper._clean_price_text ----
  price_text,       \* the argument, a sequence of characters
  parsePc,          \* "idle", "call", "returned"
  parsed,           \* [raised, value]: how the call ended and what it returned
  \* ---- one call of PriceScraper._get_price_selectors ----
  res_url,          \* the url argument, a sequence of tokens
  custom_selector,  \* the custom_selector argument: None or Some(string)
  domain,           \* local: what _get_domain returned (None while not computed)
  selectors,        \* the list the call returned
  resPc,            \* "idle", "call", "returned"
  \* ---- one call of PriceScraper._fallback_price_extraction ----
  page_content,     \* what page.content() gives: it throws, or the matches of each pattern
  fbPc,             \* "idle", "call", "returned"
  fb_price,         \* what the call returned
  \* ---- one call of PriceScraper.scrape_price ----
  x_url,            \* the url argument
  x_css,            \* the css_selector argument
  page,             \* page[k]: what the page answers to the k-th selector of the call
  xPc,              \* position of the call, "idle" .. "returned"
  playwright,       \* the async_playwright() context: "none", "running", "stopped"
  browser,          \* the launched browser: "none", "open", "closed"
  context,          \* the browser context: "none", "open", "closed"
  x_selectors,      \* local selectors
  sel_idx,          \* position of the for loop in selectors
  x_price,          \* local price
  x_result,         \* the result dict
  consulted,        \* history: per selector tried, how many elements were read
  fallback_called,  \* history: _fallback_price_extraction was called
  raised_at,        \* history: the step whose exception reached line 186, "none" otherwise
  idle_wait,        \* history: how wait_for_load_state ended: "none", "idle", "timeout"
  settle_delays,    \* history: number of asyncio.sleep(2) calls of _wait_for_page_load
  stored_readings,  \* the prices rows the caller of the extraction has inserted
  \* ---- one run of scheduler.py's main() ----
  argv,             \* the parsed command line: mode, hour, minute, interval, cron
  mainPc,           \* "idle", "start", "done"
  main_result,      \* how main() ended or where it stays
  \* ---- one call of NotificationManager.send_* ----
  credentials,      \* email, password, recipient, bot_token, chat_id ("" when unset)
  notify_kind,      \* "none", "change" (send_price_change_notification), "summary"
  notifyPc,         \* "idle", "email", "telegram", "return", "returned"
  attempts,         \* history: the channels on which a delivery was attempted, in order
  success_email,    \* local success_email
  success_telegram, \* local success_telegram
  notify_ret,       \* None, or Some(returned value)
  \* ---- the prices table of one url ----
  price_rows,       \* the rows in insertion order: id, price, timestamp
  clock,            \* the clock second CURRENT_TIMESTAMP reads
  latest,           \* what get_latest_price last answered (None or Some(price))
  recent,           \* what get_prices(url, 2) last answered: prices, newest first
  change            \* what get_price_change last answered

batchVars == <<tracked, prices, notification_manager, stats, pc, products, idx,
               results, previous_price, scrape_result, ret, log,
               notifyChangeCalls, notifySummaryCalls, appended>>

manyVars == <<urls, manyPc, semaphore, task, gathered, raw, processed_results>>

schedVars == <<scheduler, is_running, jobs, due, instances, pending, in_batch,
               signalled, exit_code, started_after_signal, runs_started>>

\* variables of the single-call specifications (parser, selector resolution, extraction)
parseVars == <<price_text, parsePc, parsed>>

resolveVars == <<res_url, custom_selector, domain, selectors, resPc>>

fallbackVars == <<page_content, fbPc, fb_price>>

extractVars == <<x_url, x_css, page, xPc, playwright, browser, context, x_selectors, sel_idx,
                 x_price, x_result, consulted, fallback_called, raised_at,
                 idle_wait, settle_delays, stored_readings>>

mainVars == <<argv, mainPc, main_result>>

notifyVars == <<credentials, notify_kind, notifyPc, attempts, success_email, success_telegram,
                notify_ret>>

storeVars == <<price_rows, clock, latest, recent, change>>

otherVars == <<mainVars, notifyVars, storeVars>>

auxVars == <<parseVars, resolveVars, fallbackVars, extractVars, otherVars>>

vars == <<batchVars, manyVars, schedVars, auxVars>>

(* ------------------------------------------------------------------ *)
(* database.py                                                          *)
(* ------------------------------------------------------------------ *)
\* get_prices(url, limit): newest first, at most limit rows.
get_prices(url, limit) ==
  LET h == prices[url]
      k == IF Len(h) < limit THEN Len(h) ELSE limit
  IN [i \in 1..k |-> h[Len(h) + 1 - i]]

\* get_latest_price(url): prices[0] if prices else None
get_latest_price(url) ==
  LET p == get_prices(url, 1) IN IF p # <<>> THEN Some(p[1]) ELSE None

\* add_price(url, price): INSERT one row
add_price(url, price) == [prices EXCEPT ![url] = Append(@, price)]

(* ------------------------------------------------------------------ *)
(* scraper.py: what scrape_sync can hand back                           *)
(* ------------------------------------------------------------------ *)
ScrapeSuccess(url, p) == [url |-> url, price |-> Some(p), success |-> TRUE, error |-> None]
ScrapeFailure(url) ==
  [url |-> url, price |-> None, success |-> FALSE, error |-> Some("No price found with any selector")]
ScrapeOutcomes(url) == {ScrapeSuccess(url, p) : p \in Prices} \cup {ScrapeFailure(url)}

(* ------------------------------------------------------------------ *)
(* scheduler.py: scrape_all_products                                    *)
(* ------------------------------------------------------------------ *)
Abs(x) == IF x < 0 THEN -x ELSE x

\* mutant: the change is taken relative to the current price
PriceChange_OverCurrent(previous, current) == [num |-> (current - previous) * 100, den |-> current]

\* price_change = ((current_price - previous_price) / previous_price) * 100,
\* kept exact as the fraction num / den (den > 0: stored prices are positive).
PriceChange(previous, current) == [num |-> (current - previous) * 100, den |-> previous]

\* mutant: the comparison made strict
SignificantChange_Strict(previous, current) ==
  Abs(PriceChange(previous, current).num) > NotificationThreshold * PriceChange(previous, current).den

\* abs(price_change) >= self.notification_threshold
SignificantChange(previous, current) ==
  Abs(PriceChange(previous, current).num) >= NotificationThreshold * PriceChange(previous, current).den

ChangeInfo(url, previous, current) ==
  [product |-> url, url |-> url, previous_price |-> previous, current_price |-> current,
   change_amount |-> current - previous, change_percentage |-> PriceChange(previous, current)]

\* mutant: the zero-work run reported as a failure
EmptyResult_Failure ==
  [success |-> FALSE, products_scraped |-> 0, successful |-> 0, failed |-> 0]

\* the dict returned at lines 90-96 (its message is left out)
EmptyResult ==
  [success |-> TRUE, products_scraped |-> 0, successful |-> 0, failed |-> 0]

NewResults(n) ==
  [products_scraped |-> n, successful |-> 0, failed |-> 0, errors |-> <<>>, price_changes |-> <<>>]

\* mutant: the handler records the error without counting the item as failed
ExceptionPath_NoCount(r, url) ==
  [r EXCEPT !.errors = Append(@, [kind |-> "exception", item |-> url])]

\* except Exception as e: (lines 168-172)
ExceptionPath(r, url) ==
  [r EXCEPT !.failed = @ + 1, !.errors = Append(@, [kind |-> "exception", item |-> url])]

\* else-branch of scrape_result['success'] (lines 152-156)
FailedPath(r, url) ==
  [r EXCEPT !.failed = @ + 1, !.errors = Append(@, [kind |-> "failed", item |-> url])]

\* mutant: the loop is left after the first item it dealt with
NextPc_Abort(i) == "finish"

\* for product in products: the loop moves on, or the loop is over
NextPc(i) == IF i < Len(products) THEN "lookup" ELSE "finish"

LogEntry(url, stored, prev, outcome, price, persisted, event, notify) ==
  [url |-> url, stored |-> stored, previous |-> prev, outcome |-> outcome, price |-> price,
   persisted |-> persisted, event |-> event, notify |-> notify]

\* ids of the jobs add_daily_job, add_interval_job and add_custom_job register
JobIds == {"daily_scrape", "interval_scrape", "custom_scrape"}

\* no scheduler has been set up
SchedIdle ==
  /\ scheduler = "none" /\ is_running = FALSE /\ jobs = {}
  /\ due = [j \in JobIds |-> 0] /\ instances = [j \in JobIds |-> 0]
  /\ pending = [j \in JobIds |-> 0] /\ in_batch = {}
  /\ signalled = FALSE /\ exit_code = None /\ started_after_signal = FALSE
  /\ runs_started = [j \in JobIds |-> 0]

\* scrape_multiple is not running
ManyIdle ==
  /\ urls = <<>> /\ manyPc = "idle" /\ semaphore = 0 /\ task = <<>>
  /\ gathered = <<>> /\ raw = <<>> /\ processed_results = <<>>

\* no call of _clean_price_text is under way
ParseIdle == price_text = <<>> /\ parsePc = "idle" /\ parsed = [raised |-> FALSE, value |-> None]

\* no call of _get_price_selectors is under way
ResolveIdle ==
  res_url = <<>> /\ custom_selector = None /\ domain = None /\ selectors = <<>> /\ resPc = "idle"

\* no call of _fallback_price_extraction is under way
FallbackIdle ==
  /\ page_content = [throws |-> FALSE, matches |-> <<>>]
  /\ fbPc = "idle" /\ fb_price = None

\* no call of scrape_price is under way
ExtractIdle ==
  /\ x_url = <<>> /\ x_css = None /\ page = <<>> /\ xPc = "idle"
  /\ playwright = "none" /\ browser = "none" /\ context = "none"
  /\ x_selectors = <<>> /\ sel_idx = 0 /\ x_price = None
  /\ x_result = [url |-> <<>>, price |-> None, success |-> FALSE, error |-> None]
  /\ consulted = <<>> /\ fallback_called = FALSE /\ raised_at = "none"
  /\ idle_wait = "none" /\ settle_delays = 0 /\ stored_readings = <<>>

\* main() has not been entered
MainIdle ==
  /\ argv = [mode |-> "daily", hour |-> 9, minute |-> 0, interval |-> 6, cron |-> None]
  /\ mainPc = "idle"
  /\ main_result = [exit_code |-> None, jobs |-> {}, is_running |-> FALSE]

\* no notification call is under way
NotifyIdle ==
  /\ credentials = [email |-> "", password |-> "", recipient |-> "", bot_token |-> "", chat_id |-> ""]
  /\ notify_kind = "none" /\ notifyPc = "idle" /\ attempts = <<>>
  /\ success_email = FALSE /\ success_telegram = FALSE /\ notify_ret = None

\* an empty prices table that is not queried
StoreIdle == price_rows = <<>> /\ clock = 0 /\ latest = None /\ recent = <<>> /\ change = None

OtherIdle == MainIdle /\ NotifyIdle /\ StoreIdle

AuxIdle == ParseIdle /\ ResolveIdle /\ FallbackIdle /\ ExtractIdle /\ OtherIdle

InitBatch ==
  /\ ManyIdle /\ SchedIdle /\ AuxIdle
  /\ \E n \in 0..MaxProducts :
       /\ tracked = [i \in 1..n |-> i]
       /\ prices \in [1..MaxProducts -> InitHistories]
       /\ \A u \in 1..MaxProducts : u > n => prices[u] = <<>>
  /\ notification_manager \in BOOLEAN
  /\ stats = [total_scrapes |-> 0, successful_scrapes |-> 0, failed_scrapes |-> 0,
              notifications_sent |-> 0, last_run |-> 0]
  /\ pc = "idle"
  /\ products = <<>>
  /\ idx = 0
  /\ results = NewResults(0)
  /\ previous_price = None
  /\ scrape_result = None
  /\ ret = None
  /\ log = <<>>
  /\ notifyChangeCalls = <<>>
  /\ notifySummaryCalls = <<>>
  /\ appended = 0

\* lines 81-104: fetch the products; return at once when there are none.
\* get_products answers [] as well when the query fails (sqlite3.Error).
StartRun ==
  /\ pc = "idle"
  /\ \E dbOk \in BOOLEAN :
       LET got == IF dbOk THEN tracked ELSE <<>> IN
       /\ products' = got
       /\ IF got = <<>>
            THEN /\ ret' = Some(EmptyResult)
                 /\ pc' = "returned"
                 /\ idx' = 0
                 /\ results' = results
            ELSE /\ ret' = None
                 /\ pc' = "lookup"
                 /\ idx' = 1
                 /\ results' = NewResults(Len(got))
  /\ UNCHANGED <<manyVars, schedVars, auxVars, tracked, prices, notification_manager, stats, previous_price,
                 scrape_result, log, notifyChangeCalls, notifySummaryCalls, appended>>

\* lines 111-113: previous_price_entry = self.db.get_latest_price(product.url).
\* get_prices swallows sqlite3.Error and answers [], so the lookup then yields
\* None; any other exception reaches the handler of the loop body.
LookupPrevious ==
  /\ pc = "lookup"
  /\ LET url == products[idx] IN
     \E how \in {"ok", "sqlite_error", "raises"} :
       IF how = "raises"
         THEN /\ results' = ExceptionPath(results, url)
              /\ log' = Append(log, LogEntry(url, get_latest_price(url), None, "lookup_raised",
                                             None, FALSE, FALSE, "none"))
              /\ idx' = idx + 1
              /\ pc' = NextPc(idx)
              /\ UNCHANGED previous_price
         ELSE /\ previous_price' = IF how = "ok" THEN get_latest_price(url) ELSE None
              /\ pc' = "scrape"
              /\ UNCHANGED <<results, log, idx>>
  /\ UNCHANGED <<manyVars, schedVars, auxVars, tracked, prices, notification_manager, stats, products, scrape_result,
                 ret, notifyChangeCalls, notifySummaryCalls, appended>>

\* lines 115-116: scrape_result = self.scraper.scrape_sync(url, css_selector)
ScrapeItem ==
  /\ pc = "scrape"
  /\ LET url == products[idx] IN
     \/ \E o \in ScrapeOutcomes(url) :
          /\ scrape_result' = Some(o)
          /\ pc' = "handle"
          /\ UNCHANGED <<results, log, idx>>
     \/ \* asyncio.run itself raises
        /\ results' = ExceptionPath(results, url)
        /\ log' = Append(log, LogEntry(url, get_latest_price(url), previous_price,
                                       "scrape_raised", None, FALSE, FALSE, "none"))
        /\ idx' = idx + 1
        /\ pc' = NextPc(idx)
        /\ UNCHANGED scrape_result
  /\ UNCHANGED <<manyVars, schedVars, auxVars, tracked, prices, notification_manager, stats, products, previous_price,
                 ret, notifyChangeCalls, notifySummaryCalls, appended>>

\* mutant: no inner try, the exception of the transport reaches line 168
NotifyRaised_Fails(r, url) == ExceptionPath(r, url)

\* The inner try of lines 146-150: an exception of the transport is logged and
\* nothing else; the results dict is left as it is.
NotifyRaised(r, url) == r

\* mutant: the summary is sent after every run
SummaryDue_Always(r) == notification_manager

\* if results['price_changes'] and self.notification_manager: (line 181)
SummaryDue(r) == r.price_changes # <<>> /\ notification_manager

\* mutant: the previous price is looked up again after the new reading was stored
ComparedPrevious_Reread(read, written) == written

\* lines 126-128: the price compared against is previous_price, the value
\* read at lines 112-113, not a value read after add_price at line 122
ComparedPrevious(read, written) == read

\* lines 158-163 plus line 148: the statistics of one item that reached them
ItemStats(s, success, sent) ==
  [s EXCEPT !.total_scrapes = @ + 1,
            !.successful_scrapes = @ + (IF success THEN 1 ELSE 0),
            !.failed_scrapes = @ + (IF success THEN 0 ELSE 1),
            !.notifications_sent = @ + (IF sent THEN 1 ELSE 0)]

\* lines 118-166: the rest of the loop body, from the test of
\* scrape_result['success'] to the end of the iteration.
HandleResult ==
  /\ pc = "handle"
  /\ LET url == products[idx]
         sr == scrape_result[1]
         stored == get_latest_price(url)
     IN
     IF sr.success
       THEN
         LET current == sr.price[1] IN
         \/ \* self.db.add_price raises: nothing was committed
            /\ results' = ExceptionPath(results, url)
            /\ log' = Append(log, LogEntry(url, stored, previous_price, "success", sr.price,
                                           FALSE, FALSE, "none"))
            /\ UNCHANGED <<prices, appended, stats, notifyChangeCalls>>
         \/ \* the reading is stored
            /\ prices' = add_price(url, current)
            /\ appended' = appended + 1
            /\ LET r1 == [results EXCEPT !.successful = @ + 1]
                   compared == ComparedPrevious(previous_price, Some(current))
                   event == /\ compared # None
                            /\ SignificantChange(compared[1], current)
               IN
               IF event
                 THEN
                   LET info == ChangeInfo(url, compared[1], current)
                       r2 == [r1 EXCEPT !.price_changes = Append(@, info)]
                   IN
                   IF notification_manager
                     THEN \E how \in {"delivered", "undelivered", "raised"} :
                            /\ notifyChangeCalls' = Append(notifyChangeCalls, info)
                            /\ results' = IF how = "raised" THEN NotifyRaised(r2, url) ELSE r2
                            /\ stats' = ItemStats(stats, TRUE, how # "raised")
                            /\ log' = Append(log, LogEntry(url, stored, previous_price, "success",
                                                           sr.price, TRUE, TRUE, how))
                     ELSE /\ results' = r2
                          /\ stats' = ItemStats(stats, TRUE, FALSE)
                          /\ log' = Append(log, LogEntry(url, stored, previous_price, "success",
                                                         sr.price, TRUE, TRUE, "none"))
                          /\ UNCHANGED notifyChangeCalls
                 ELSE /\ results' = r1
                      /\ stats' = ItemStats(stats, TRUE, FALSE)
                      /\ log' = Append(log, LogEntry(url, stored, previous_price, "success",
                                                     sr.price, TRUE, FALSE, "none"))
                      /\ UNCHANGED notifyChangeCalls
       ELSE
         /\ results' = FailedPath(results, url)
         /\ stats' = ItemStats(stats, FALSE, FALSE)
         /\ log' = Append(log, LogEntry(url, stored, previous_price, "failed", None,
                                        FALSE, FALSE, "none"))
         /\ UNCHANGED <<prices, appended, notifyChangeCalls>>
  /\ idx' = idx + 1
  /\ pc' = NextPc(idx)
  /\ UNCHANGED <<manyVars, schedVars, auxVars, tracked, notification_manager, products, previous_price, scrape_result,
                 ret, notifySummaryCalls>>

\* lines 174-187: last_run, the summary notification, return results.
\* An exception of send_scraping_summary is logged and swallowed.
FinishRun ==
  /\ pc = "finish"
  /\ stats' = [stats EXCEPT !.last_run = @ + 1]
  /\ IF SummaryDue(results)
       THEN \E how \in {"delivered", "undelivered", "raised"} :
              notifySummaryCalls' = Append(notifySummaryCalls, results)
       ELSE UNCHANGED notifySummaryCalls
  /\ ret' = Some(results)
  /\ pc' = "returned"
  /\ UNCHANGED <<manyVars, schedVars, auxVars, tracked, prices, notification_manager, products, idx, results,
                 previous_price, scrape_result, log, notifyChangeCalls, appended>>

NextBatch == StartRun \/ LookupPrevious \/ ScrapeItem \/ HandleResult \/ FinishRun

Spec == InitBatch /\ [][NextBatch]_vars

(* ------------------------------------------------------------------ *)
(* Properties of one batch run                                          *)
(* ------------------------------------------------------------------ *)
ErrorsFor(u) == Cardinality({k \in DOMAIN results.errors : results.errors[k].item = u})
EventsFor(u) == Cardinality({k \in DOMAIN results.price_changes : results.price_changes[k].url = u})
LogUrls == [k \in DOMAIN log |-> log[k].url]
Persisted(e) == e.outcome = "success" /\ e.persisted
\* the extraction failed, or an exception left the loop body through line 168
Troubled(e) == ~Persisted(e)
Running == pc \in {"lookup", "scrape", "handle", "finish"}

\* C5 as stated: every item is attempted once and in order, the run returns,
\* and every failed extraction or exception while processing an item (the
\* notification included) has put one error string on the run's error list.
C5_ErrorPerTroubleIncludingNotification ==
  /\ LogUrls = SubSeq(products, 1, Len(log))
  /\ pc = "returned" => (ret # None /\ Len(log) = Len(products))
  /\ \A k \in DOMAIN log :
       (Troubled(log[k]) \/ log[k].notify = "raised") => ErrorsFor(log[k].url) = 1

\* C5 amended: every item is attempted once and in order whatever happened to
\* the earlier ones; a failed extraction or an exception of the previous-price
\* lookup, the extraction or the persisting adds exactly one error string and
\* the loop moves on; an exception of the notification transport adds none;
\* the run never gets stuck and returns a result.
C5_EveryItemOnceInOrder ==
  /\ LogUrls = SubSeq(products, 1, Len(log))
  /\ Running => (idx = Len(log) + 1 /\ ENABLED (LookupPrevious \/ ScrapeItem \/ HandleResult \/ FinishRun))
  /\ pc = "returned" => (ret # None /\ Len(log) = Len(products))
  /\ \A k \in DOMAIN log :
       ErrorsFor(log[k].url) = IF Troubled(log[k]) THEN 1 ELSE 0
  /\ Len(results.errors) = Cardinality({k \in DOMAIN log : Troubled(log[k])})

\* C5 witness: a returned run of three items whose first item raised in the
\* lookup, whose second raised in the transport and whose third was scraped.
C5_Witness ==
  /\ pc = "returned" /\ Len(log) = 3
  /\ log[1].outcome = "lookup_raised"
  /\ log[2].notify = "raised"
  /\ log[3].outcome = "success" /\ log[3].persisted

\* C6: a returned run over n > 0 items has successful + failed =
\* products_scraped = n, as many readings appended as successful, as many error
\* strings as failed, and no item in both counts.
C6_CountsAddUp ==
  (pc = "returned" /\ products # <<>>) =>
    LET r == ret[1] IN
    /\ r.products_scraped = Len(products)
    /\ r.successful + r.failed = r.products_scraped
    /\ appended = r.successful
    /\ Len(r.errors) = r.failed
    /\ r.successful = Cardinality({k \in DOMAIN log : Persisted(log[k])})
    /\ r.failed = Cardinality({k \in DOMAIN log : Troubled(log[k])})

\* C6 witness: three items, one failed extraction, two stored readings.
C6_Witness ==
  /\ pc = "returned" /\ Len(products) = 3
  /\ ret[1].successful = 2 /\ ret[1].failed = 1
  /\ \E k \in DOMAIN log : log[k].outcome = "failed"

\* the condition of C7 on an item, with the reading the store held before
\* the item was touched
ChangeExpected(e, prev) ==
  /\ e.outcome = "success"
  /\ prev # None
  /\ Abs(e.price[1] - prev[1]) * 100 >= NotificationThreshold * prev[1]

\* C7 as stated: an item has a ChangeEvent iff its extraction succeeded, a
\* previous reading was stored and the change reaches the threshold.
C7_EventIffStoredPreviousAndThreshold ==
  \A k \in DOMAIN log :
    EventsFor(log[k].url) = IF ChangeExpected(log[k], log[k].stored) THEN 1 ELSE 0

\* C7 amended: an item has a ChangeEvent (on price_changes and, with
\* notifications enabled, handed to the transport) iff its extraction
\* succeeded, its reading was persisted, the previous-price lookup returned a
\* reading and |change| * 100 >= threshold * previous; the boundary is
\* inclusive and a first observation never makes an event.
C7_EventIffPersistedLookedUpAndThreshold ==
  /\ \A k \in DOMAIN log :
       EventsFor(log[k].url) =
         IF log[k].persisted /\ ChangeExpected(log[k], log[k].previous) THEN 1 ELSE 0
  /\ \A k \in DOMAIN results.price_changes :
       LET c == results.price_changes[k] IN
       /\ c.change_amount = c.current_price - c.previous_price
       /\ \E j \in DOMAIN log :
            /\ log[j].url = c.url /\ log[j].stored = Some(c.previous_price)
            /\ log[j].price = Some(c.current_price)
  /\ notification_manager => notifyChangeCalls = results.price_changes

\* C7 witness: one item moved 100 -> 105 (exactly the threshold) and has an
\* event, one moved 100 -> 104 and has none, one had no previous reading.
C7_Witness ==
  /\ pc = "returned"
  /\ \E a, b, c \in DOMAIN log :
       /\ log[a].stored = <<100>> /\ log[a].price = <<105>> /\ EventsFor(log[a].url) = 1
       /\ log[b].stored = <<100>> /\ log[b].price = <<104>> /\ log[b].persisted
       /\ EventsFor(log[b].url) = 0
       /\ log[c].stored = None /\ log[c].persisted /\ EventsFor(log[c].url) = 0

\* C8: with notifications enabled every ChangeEvent is handed to
\* send_price_change_notification once, when its item is processed, and
\* send_scraping_summary is called once, after the last item, iff the run
\* detected a change; with no change neither is called.
C8_OneCallPerEventOneSummary ==
  notification_manager =>
    /\ notifyChangeCalls = results.price_changes
    /\ Len(notifySummaryCalls) <= 1
    /\ notifySummaryCalls # <<>> =>
         (pc = "returned" /\ Len(log) = Len(products) /\ notifySummaryCalls[1] = ret[1])
    /\ (pc = "returned" /\ products # <<>>) =>
         (Len(notifySummaryCalls) = 1 <=> ret[1].price_changes # <<>>)
    /\ (pc = "returned" /\ results.price_changes = <<>>) =>
         (notifyChangeCalls = <<>> /\ notifySummaryCalls = <<>>)

\* C8 witness: three successes, one change: one event call and one summary.
C8_Witness ==
  /\ pc = "returned" /\ notification_manager
  /\ ret[1].successful = 3 /\ ret[1].failed = 0 /\ Len(ret[1].price_changes) = 1
  /\ Len(notifyChangeCalls) = 1 /\ Len(notifySummaryCalls) = 1

\* C9: whatever the transport does with a change (delivers, does not deliver,
\* raises), the change is on price_changes, the item is counted successful
\* with its reading stored and no error string, and the run goes on to return.
C9_TransportFailureIsHarmless ==
  /\ \A k \in DOMAIN log :
       log[k].notify \in {"delivered", "undelivered", "raised"} =>
         /\ EventsFor(log[k].url) = 1
         /\ ErrorsFor(log[k].url) = 0
         /\ prices[log[k].url] # <<>>
         /\ Some(prices[log[k].url][Len(prices[log[k].url])]) = log[k].price
  /\ results.successful = Cardinality({k \in DOMAIN log : Persisted(log[k])})
  /\ Running => ENABLED (LookupPrevious \/ ScrapeItem \/ HandleResult \/ FinishRun)
  /\ pc = "returned" => Len(log) = Len(products)

\* C9 witness: the transport raised on the first item, did not deliver the
\* second, and the run returned with both counted successful.
C9_Witness ==
  /\ pc = "returned" /\ Len(log) >= 2
  /\ log[1].notify = "raised" /\ log[2].notify = "undelivered"
  /\ ret[1].successful >= 2 /\ Len(ret[1].price_changes) >= 2

\* C10: a run started on a store without tracked items returns success with
\* all counts 0 and has scraped nothing, stored nothing and notified nobody.
C10_EmptyRunIsNoOp ==
  (pc = "returned" /\ tracked = <<>>) =>
    /\ ret = Some([success |-> TRUE, products_scraped |-> 0, successful |-> 0, failed |-> 0])
    /\ log = <<>> /\ scrape_result = None
    /\ appended = 0 /\ \A u \in DOMAIN prices : prices[u] = <<>>
    /\ notifyChangeCalls = <<>> /\ notifySummaryCalls = <<>>

\* C10 witness: a run on an empty store has returned.
C10_Witness == pc = "returned" /\ tracked = <<>> /\ ret # None

(* ------------------------------------------------------------------ *)
(* scraper.py: scrape_multiple                                          *)
(* ------------------------------------------------------------------ *)
\* semaphore = asyncio.Semaphore(3)
SemaphoreLimit == 3

\* The urls a caller can pass; a list may name a url twice.
UrlNames == {"u1", "u2"}

\* An exception object, as gather(return_exceptions=True) puts it in its list
Raised(msg) == [exception |-> TRUE, description |-> msg]
IsException(r) == "exception" \in DOMAIN r

\* What one extraction, scrape_price(url), can come to: an outcome dict, or an
\* exception that leaves it.
Extractions(url) == {ScrapeSuccess(url, 100), ScrapeFailure(url), Raised("injected failure")}

\* mutant: a semaphore that never blocks
Locked_Never(value) == FALSE

\* asyncio.Semaphore.locked(): no permit is left
Locked(value) == value = 0

\* mutant: results are stored in the order in which the tasks complete
GatherSlot_ByCompletion(i) == Cardinality({j \in DOMAIN task : task[j] = "done"}) + 1

\* asyncio.gather: the result of the i-th awaitable goes to position i
GatherSlot(i) == i

\* mutant: the exception object is passed on as it is
ProcessedResult_NoConversion(url, result) == result

\* lines 240-250: an exception becomes a failed outcome, a dict is kept
ProcessedResult(url, result) ==
  IF IsException(result)
    THEN [url |-> url, price |-> None, success |-> FALSE, error |-> Some(result.description)]
    ELSE result

\* mutant: an extraction that raises keeps its permit
Release_NotWhenRaised(value, r) == IF IsException(r) THEN value ELSE value + 1

\* async with semaphore: (line 232) releases on the way out of the block,
\* whether scrape_price returned r or raised it
Release(value, r) == value + 1

InFlight == Cardinality({i \in DOMAIN task : task[i] = "running"})

\* the batch run is not running
BatchIdle ==
  /\ tracked = <<>> /\ prices = [u \in 1..MaxProducts |-> <<>>]
  /\ notification_manager = FALSE
  /\ stats = [total_scrapes |-> 0, successful_scrapes |-> 0, failed_scrapes |-> 0,
              notifications_sent |-> 0, last_run |-> 0]
  /\ pc = "idle" /\ products = <<>> /\ idx = 0 /\ results = NewResults(0)
  /\ previous_price = None /\ scrape_result = None /\ ret = None /\ log = <<>>
  /\ notifyChangeCalls = <<>> /\ notifySummaryCalls = <<>> /\ appended = 0

InitMany ==
  /\ BatchIdle /\ SchedIdle /\ AuxIdle
  /\ \E n \in 0..MaxUrls : urls \in [1..n -> UrlNames]
  /\ manyPc = "idle" /\ semaphore = 0 /\ task = <<>>
  /\ gathered = <<>> /\ raw = <<>> /\ processed_results = <<>>

\* lines 229-236: the semaphore and one task per url are created and gather
\* starts to wait for them.
CallScrapeMultiple ==
  /\ manyPc = "idle"
  /\ semaphore' = SemaphoreLimit
  /\ task' = [i \in DOMAIN urls |-> "created"]
  /\ gathered' = [i \in DOMAIN urls |-> None]
  /\ raw' = [i \in DOMAIN urls |-> None]
  /\ manyPc' = "gather"
  /\ UNCHANGED <<batchVars, schedVars, auxVars, urls, processed_results>>

\* line 232, async with semaphore: task i takes a permit and enters scrape_price
TaskAcquire(i) ==
  /\ manyPc = "gather"
  /\ task[i] = "created"
  /\ ~Locked(semaphore)
  /\ semaphore' = semaphore - 1
  /\ task' = [task EXCEPT ![i] = "running"]
  /\ UNCHANGED <<batchVars, schedVars, auxVars, urls, manyPc, gathered, raw, processed_results>>

\* lines 232-233: scrape_price returns or raises; leaving the async with block
\* gives the permit back either way; gather stores what the task came to.
TaskFinish(i) ==
  /\ manyPc = "gather"
  /\ task[i] = "running"
  /\ \E r \in Extractions(urls[i]) :
       /\ raw' = [raw EXCEPT ![i] = Some(r)]
       /\ gathered' = [gathered EXCEPT ![GatherSlot(i)] = Some(r)]
       /\ semaphore' = Release(semaphore, r)
  /\ task' = [task EXCEPT ![i] = "done"]
  /\ UNCHANGED <<batchVars, schedVars, auxVars, urls, manyPc, processed_results>>

\* lines 236-252: every task is done, gather returns its list and the loop
\* over it builds processed_results.
GatherReturn ==
  /\ manyPc = "gather"
  /\ \A i \in DOMAIN task : task[i] = "done"
  /\ processed_results' = [i \in DOMAIN urls |-> ProcessedResult(urls[i], gathered[i][1])]
  /\ manyPc' = "returned"
  /\ UNCHANGED <<batchVars, schedVars, auxVars, urls, semaphore, task, gathered, raw>>

NextMany ==
  \/ CallScrapeMultiple
  \/ \E i \in DOMAIN task : TaskAcquire(i)
  \/ \E i \in DOMAIN task : TaskFinish(i)
  \/ GatherReturn

SpecMany == InitMany /\ [][NextMany]_vars

\* The event loop keeps running callbacks that are ready, and every
\* extraction that was started returns or raises at some time.
SpecManyFair == SpecMany /\ WF_vars(NextMany)

\* steps scrape_multiple still has to take: the call, per task its start and
\* its end, the return of gather
RemainingWork ==
  CASE manyPc = "idle" -> 2 * Len(urls) + 2
    [] manyPc = "gather" ->
         2 * Cardinality({i \in DOMAIN task : task[i] = "created"}) + InFlight + 1
    [] OTHER -> 0

\* C30: scrape_multiple terminates for every list of urls, provided every
\* extraction that was started returns or raises: each step lowers the number
\* of steps left, and before the call has returned a step is always possible
\* (a permit is free for a waiting task, or an extraction is in flight, or
\* gather can return), because a permit that was taken is given back also
\* when the extraction raises; when the call has returned, every url's
\* extraction was started and is done, none is in flight and all 3 permits
\* are free.
C30_TerminatesWithAllPermitsFree ==
  /\ [][RemainingWork' < RemainingWork]_vars
  /\ [](/\ manyPc # "returned" => ENABLED NextMany
        /\ manyPc = "gather" => semaphore + InFlight = SemaphoreLimit
        /\ manyPc = "returned" =>
             /\ \A i \in DOMAIN urls : task[i] = "done" /\ raw[i] # None
             /\ InFlight = 0
             /\ semaphore = SemaphoreLimit)

\* C30, as a property of the fair behaviours: the call returns
C30_EventuallyReturns == <>(manyPc = "returned")

\* C30 witness: a list longer than the number of permits, three extractions
\* of which raised, has been worked off and the call has returned.
C30_Witness ==
  /\ manyPc = "returned" /\ Len(urls) > SemaphoreLimit
  /\ Cardinality({i \in DOMAIN raw : IsException(raw[i][1])}) >= SemaphoreLimit
  /\ semaphore = SemaphoreLimit /\ InFlight = 0

\* C2: during scrape_multiple never more than 3 extractions have started and
\* not yet finished, however long the list of urls.
C2_AtMostThreeInFlight ==
  /\ InFlight <= 3
  /\ manyPc = "gather" => InFlight + semaphore = 3

\* C2 witness: a list of more than 3 urls with 3 extractions in flight and a
\* task waiting for a permit.
C2_Witness ==
  /\ Len(urls) > 3 /\ InFlight = 3
  /\ \E i \in DOMAIN task : task[i] = "created"

\* C3: whatever the order in which the extractions complete, the returned list
\* is as long as urls and its element i is the outcome of urls[i].
C3_ResultsInInputOrder ==
  manyPc = "returned" =>
    /\ Len(processed_results) = Len(urls)
    /\ \A i \in DOMAIN urls :
         /\ processed_results[i].url = urls[i]
         /\ IF IsException(raw[i][1])
              THEN ~processed_results[i].success
              ELSE processed_results[i] = raw[i][1]

\* C3 witness: a returned call over three urls, not all the same, whose
\* extractions came to three different things.
C3_Witness ==
  /\ manyPc = "returned" /\ Len(urls) = 3 /\ urls[1] # urls[2]
  /\ processed_results[1].success /\ ~processed_results[2].success
  /\ IsException(raw[3][1])

\* C4: an extraction that raises yields, at its own index, a failed outcome
\* (success false, no price, the exception's description, its url); every
\* other index holds exactly what its own extraction returned.
C4_FailureIsIsolated ==
  manyPc = "returned" =>
    \A i \in DOMAIN urls :
      IF IsException(raw[i][1])
        THEN processed_results[i] =
               [url |-> urls[i], price |-> None, success |-> FALSE,
                error |-> Some(raw[i][1].description)]
        ELSE processed_results[i] = raw[i][1]

\* C4 witness: the second of three extractions raised, the first and third
\* returned a price.
C4_Witness ==
  /\ manyPc = "returned" /\ Len(urls) = 3
  /\ IsException(raw[2][1])
  /\ processed_results[1].success /\ processed_results[3].success
  /\ ~processed_results[2].success

(* ------------------------------------------------------------------ *)
(* scheduler.py: the scheduler and its jobs.  What the scheduler does   *)
(* with a job follows APScheduler 3.x, which scheduler.py configures:   *)
(* BaseScheduler._process_jobs collects the fire times of a job that    *)
(* have passed (one of them if coalesce, else all), the executor        *)
(* refuses the job while max_instances instances of THAT job run, and   *)
(* run_job calls the job function once per fire time that is not later  *)
(* than misfire_grace_time.  The executor is a thread pool: instances   *)
(* of different jobs run side by side.                                  *)
(* ------------------------------------------------------------------ *)
\* job_defaults, lines 64-68
Coalesce == FALSE
MaxInstances == 1

\* lines 56-73: a new scheduler object, without jobs, replaces self.scheduler,
\* and _signal_handler is registered for SIGINT and SIGTERM.
\* (Taken before the scheduler is started only.)
SetupScheduler ==
  /\ ~is_running /\ ~signalled
  /\ scheduler' = "configured"
  /\ jobs' = {}
  /\ due' = [j \in JobIds |-> 0]
  /\ UNCHANGED <<batchVars, manyVars, auxVars, is_running, instances, pending, in_batch,
                 signalled, exit_code, started_after_signal, runs_started>>

\* add_job(..., id=job_id, replace_existing=True); without a scheduler the
\* add_* methods raise ValueError and change nothing.
AddJob(job_id) ==
  /\ scheduler = "configured" /\ ~signalled
  /\ jobs' = jobs \cup {job_id}
  /\ due' = [due EXCEPT ![job_id] = 0]
  /\ UNCHANGED <<batchVars, manyVars, auxVars, scheduler, is_running, instances, pending, in_batch,
                 signalled, exit_code, started_after_signal, runs_started>>

\* lines 189-204
AddDailyJob == AddJob("daily_scrape")

\* lines 206-221
AddIntervalJob == AddJob("interval_scrape")

\* lines 223-238; CronTrigger.from_crontab raises on an expression it cannot
\* parse and then no job is added.
AddCustomJob ==
  \E valid \in BOOLEAN :
    IF valid THEN AddJob("custom_scrape")
    ELSE (scheduler = "configured" /\ ~signalled /\ UNCHANGED vars)

\* lines 240-266: set the scheduler up if there is none; return if it runs
\* already or has no jobs; else mark it running and start it.
Start ==
  /\ ~signalled
  /\ scheduler' = "configured"
  /\ jobs' = IF scheduler = "none" THEN {} ELSE jobs
  /\ is_running' = (is_running \/ (scheduler # "none" /\ jobs # {}))
  /\ UNCHANGED <<batchVars, manyVars, auxVars, due, instances, pending, in_batch,
                 signalled, exit_code, started_after_signal, runs_started>>

\* time passes a fire time of job j's trigger
FireTimePasses(j) ==
  /\ is_running /\ scheduler = "configured" /\ j \in jobs
  /\ due[j] < MaxDue
  /\ due' = [due EXCEPT ![j] = @ + 1]
  /\ UNCHANGED <<batchVars, manyVars, auxVars, scheduler, is_running, jobs, instances, pending, in_batch,
                 signalled, exit_code, started_after_signal, runs_started>>

\* the scheduler wakes up and submits job j with its passed fire times; the
\* executor skips the submission when max_instances instances of j run.
ProcessJobs(j) ==
  /\ is_running /\ scheduler = "configured" /\ j \in jobs
  /\ due[j] > 0
  /\ LET run_times == IF Coalesce THEN 1 ELSE due[j] IN
     IF instances[j] >= MaxInstances
       THEN UNCHANGED <<instances, pending, runs_started>>
       ELSE /\ instances' = [instances EXCEPT ![j] = @ + 1]
            /\ pending' = [pending EXCEPT ![j] = run_times]
            /\ runs_started' = [runs_started EXCEPT ![j] = 0]
  /\ due' = [due EXCEPT ![j] = 0]
  /\ UNCHANGED <<batchVars, manyVars, auxVars, scheduler, is_running, jobs, in_batch,
                 signalled, exit_code, started_after_signal>>

\* run_job in a worker thread takes the next fire time: it is dropped when it
\* is more than misfire_grace_time (300 s) old, else scrape_all_products starts.
\* The worker goes on with its fire times while shutdown() waits for it.
RunJob(j) ==
  /\ instances[j] > 0 /\ j \notin in_batch /\ pending[j] > 0
  /\ \E late \in BOOLEAN :
       IF late
         THEN /\ pending' = [pending EXCEPT ![j] = @ - 1]
              /\ UNCHANGED <<in_batch, runs_started, started_after_signal>>
         ELSE /\ in_batch' = in_batch \cup {j}
              /\ runs_started' = [runs_started EXCEPT ![j] = @ + 1]
              /\ started_after_signal' = (started_after_signal \/ signalled)
              /\ UNCHANGED pending
  /\ UNCHANGED <<batchVars, manyVars, auxVars, scheduler, is_running, jobs, due, instances,
                 signalled, exit_code>>

\* scrape_all_products returns to run_job
BatchReturns(j) ==
  /\ j \in in_batch
  /\ in_batch' = in_batch \ {j}
  /\ pending' = [pending EXCEPT ![j] = @ - 1]
  /\ UNCHANGED <<batchVars, manyVars, auxVars, scheduler, is_running, jobs, due, instances,
                 signalled, exit_code, started_after_signal, runs_started>>

\* run_job is through with its fire times; the executor counts the instance out
InstanceDone(j) ==
  /\ instances[j] > 0 /\ j \notin in_batch /\ pending[j] = 0
  /\ instances' = [instances EXCEPT ![j] = @ - 1]
  /\ UNCHANGED <<batchVars, manyVars, auxVars, scheduler, is_running, jobs, due, pending, in_batch,
                 signalled, exit_code, started_after_signal, runs_started>>

\* lines 75-79 and 268-275: SIGINT or SIGTERM reaches _signal_handler, which
\* calls stop().  On a running orchestrator stop() calls
\* self.scheduler.shutdown(): the scheduler takes no more fire times and
\* shutdown waits for the worker threads; otherwise stop() only logs and the
\* handler goes straight to sys.exit(0).
Signal ==
  /\ scheduler = "configured" /\ ~signalled
  /\ signalled' = TRUE
  /\ IF is_running
       THEN scheduler' = "shutdown" /\ UNCHANGED exit_code
       ELSE exit_code' = Some(0) /\ UNCHANGED scheduler
  /\ UNCHANGED <<batchVars, manyVars, auxVars, is_running, jobs, due, instances, pending, in_batch,
                 started_after_signal, runs_started>>

\* lines 272-273 and 79: shutdown() returns once no worker runs a job any
\* more; self.is_running = False; sys.exit(0)
ShutdownReturns ==
  /\ scheduler = "shutdown" /\ exit_code = None
  /\ \A j \in JobIds : instances[j] = 0
  /\ is_running' = FALSE
  /\ exit_code' = Some(0)
  /\ UNCHANGED <<batchVars, manyVars, auxVars, scheduler, jobs, due, instances, pending, in_batch,
                 signalled, started_after_signal, runs_started>>

InitSched == BatchIdle /\ ManyIdle /\ SchedIdle /\ AuxIdle

NextSched ==
  \/ SetupScheduler
  \/ AddDailyJob
  \/ AddIntervalJob
  \/ AddCustomJob
  \/ Start
  \/ \E j \in JobIds : FireTimePasses(j)
  \/ \E j \in JobIds : ProcessJobs(j)
  \/ \E j \in JobIds : RunJob(j)
  \/ \E j \in JobIds : BatchReturns(j)
  \/ \E j \in JobIds : InstanceDone(j)
  \/ Signal
  \/ ShutdownReturns

SpecSched == InitSched /\ [][NextSched]_vars

\* C1: at any moment at most one execution of scrape_all_products is in
\* progress on an orchestrator, whatever jobs are registered on it.
C1_AtMostOneBatchAtATime == Cardinality(in_batch) <= 1

\* C24 as stated: for the fire times of a job that had become due without
\* running and were handed over together, at most one batch run is started.
C24_MissedFiringsAreCoalesced == \A j \in JobIds : runs_started[j] <= 1

\* C22 as stated: after the signal no batch run is started, the process exits
\* with code 0 and not before the batch in flight has returned by itself, and
\* the orchestrator is then stopped.
C22_SignalStopsGracefully ==
  /\ ~started_after_signal
  /\ exit_code # None =>
       /\ exit_code = Some(0)
       /\ ~is_running
       /\ in_batch = {} /\ \A j \in JobIds : instances[j] = 0


(* ------------------------------------------------------------------ *)
(* scraper.py: _clean_price_text                                        *)
(* A text is a sequence of one-character strings; a number is kept      *)
(* exact as num / 10^scale, the digits float() reads and the count of   *)
(* digits behind the point.                                             *)
(* ------------------------------------------------------------------ *)
MaxTextLen == 5

Digits == <<"0", "1", "2", "3", "4", "5", "6", "7", "8", "9">>

IsDigit(c) == \E i \in 1..10 : Digits[i] = c

DigitVal(c) == (CHOOSE i \in 1..10 : Digits[i] = c) - 1

Num(n, s) == [num |-> n, scale |-> s]

Contains(s, c) == \E i \in 1..Len(s) : s[i] = c

Count(s, c) == Cardinality({i \in 1..Len(s) : s[i] = c})

\* str.rindex(c), for a c that occurs in s
RIndex(s, c) == CHOOSE i \in 1..Len(s) : s[i] = c /\ \A j \in (i + 1)..Len(s) : s[j] # c

\* str.replace(c, '')
Remove(s, c) == SelectSeq(s, LAMBDA x : x # c)

\* str.replace(c, d)
Replace(s, c, d) == [i \in 1..Len(s) |-> IF s[i] = c THEN d ELSE s[i]]

\* str.split(c)
RECURSIVE Split(_, _)
Split(s, c) ==
  IF ~Contains(s, c) THEN <<s>>
  ELSE LET i == CHOOSE k \in 1..Len(s) : s[k] = c /\ \A j \in 1..(k - 1) : s[j] # c
       IN <<SubSeq(s, 1, i - 1)>> \o Split(SubSeq(s, i + 1, Len(s)), c)

\* str.strip(): leading and trailing blanks go
RECURSIVE Strip(_)
Strip(s) ==
  IF s = <<>> THEN s
  ELSE IF Head(s) = " " THEN Strip(Tail(s))
  ELSE IF s[Len(s)] = " " THEN Strip(SubSeq(s, 1, Len(s) - 1))
  ELSE s

\* re.sub(r'[^\d.,]', '', text): only digits, '.' and ',' stay
KeepPriceChars(s) == SelectSeq(s, LAMBDA x : IsDigit(x) \/ x = "." \/ x = ",")

RECURSIVE DigitsToInt(_)
DigitsToInt(s) == IF s = <<>> THEN 0 ELSE DigitsToInt(SubSeq(s, 1, Len(s) - 1)) * 10 + DigitVal(s[Len(s)])

\* float(cleaned) for a string of digits, '.' and ',': a ValueError unless it
\* is digits with at most one point and at least one digit.
Float(cleaned) ==
  IF Contains(cleaned, ",") \/ Count(cleaned, ".") > 1 \/ Remove(cleaned, ".") = <<>>
    THEN [raised |-> TRUE, value |-> None]
    ELSE [raised |-> FALSE,
          value |-> Some(Num(DigitsToInt(Remove(cleaned, ".")),
                             IF Contains(cleaned, ".") THEN Len(cleaned) - RIndex(cleaned, ".") ELSE 0))]

\* mutant: the separator that comes first is taken for the decimal point
DecimalIsPeriod_First(cleaned) == RIndex(cleaned, ",") > RIndex(cleaned, ".")

\* cleaned.rindex(',') < cleaned.rindex('.')  (line 89)
DecimalIsPeriod(cleaned) == RIndex(cleaned, ",") < RIndex(cleaned, ".")

\* mutant: a lone comma is never a decimal point
CommaIsDecimal_Never(parts) == FALSE

\* len(parts) == 2 and len(parts[1]) <= 2  (line 99)
CommaIsDecimal(parts) == Len(parts) = 2 /\ Len(parts[2]) <= 2

\* lines 88-104: the separators of the cleaned text are normalised
NormaliseSeparators(cleaned) ==
  IF Contains(cleaned, ",") /\ Contains(cleaned, ".")
    THEN IF DecimalIsPeriod(cleaned)
           THEN Remove(cleaned, ",")
           ELSE Replace(Remove(cleaned, "."), ",", ".")
  ELSE IF Contains(cleaned, ",")
    THEN IF CommaIsDecimal(Split(cleaned, ","))
           THEN Replace(cleaned, ",", ".")
           ELSE Remove(cleaned, ",")
  ELSE cleaned

\* try: return float(cleaned) / except (ValueError, TypeError): return None
CatchValueError(f) == IF f.raised THEN [raised |-> FALSE, value |-> None] ELSE f

\* _clean_price_text(price_text)
clean_price_text(text) ==
  IF text = <<>> THEN [raised |-> FALSE, value |-> None]
  ELSE CatchValueError(Float(NormaliseSeparators(KeepPriceChars(Strip(text)))))

\* the characters the texts of the model are made of
TextAlphabet == {"0", "1", ",", ".", "-", "$"}

\* texts named by the documentation and the tests of the parser
ExampleTexts ==
  { <<"$", "9", "9", ".", "9", "9">>,
    <<"1", ",", "2", "3", "4", ".", "5", "6">>,
    <<"1", ".", "2", "3", "4", ",", "5", "6">>,
    <<"a", "b", "c">>,
    <<"-", "5", ".", "0", "0">>,
    <<" ", "1", "2", ",", "5", " ">>,
    <<"1", ",", "2", "3", "4", ",", "5", "6", "7">> }

Texts == UNION {[1..n -> TextAlphabet] : n \in 0..MaxTextLen} \cup ExampleTexts

InitParse ==
  /\ BatchIdle /\ ManyIdle /\ SchedIdle /\ ResolveIdle /\ FallbackIdle /\ ExtractIdle /\ OtherIdle
  /\ price_text \in Texts
  /\ parsePc = "call"
  /\ parsed = [raised |-> FALSE, value |-> None]

\* one call: price = self._clean_price_text(price_text)
CleanPriceText ==
  /\ parsePc = "call"
  /\ parsed' = clean_price_text(price_text)
  /\ parsePc' = "returned"
  /\ UNCHANGED <<batchVars, manyVars, schedVars, extractVars, resolveVars, fallbackVars, otherVars, price_text>>

NextParse == CleanPriceText

SpecParse == InitParse /\ [][NextParse]_vars

(* ------------------------------------------------------------------ *)
(* scraper.py: _get_domain and _get_price_selectors                     *)
(* A url is a sequence of tokens: an optional scheme "https:", an       *)
(* optional "//" followed by the tokens of the network location, and    *)
(* an optional path that starts with "/".                               *)
(* ------------------------------------------------------------------ *)
MaxHostLen == 3

\* self.price_selectors, in the order of the dict literal (lines 17-48)
price_selectors ==
  << [site |-> "amazon.com",
      selectors |-> <<".a-price-whole", ".a-offscreen", "#priceblock_dealprice",
                      "#priceblock_ourprice", ".a-price .a-offscreen">>],
     [site |-> "ebay.com",
      selectors |-> <<".u-flL.condText", ".us-pvr-price", "#mm-saleDscPrc", ".bold">>],
     [site |-> "etsy.com",
      selectors |-> <<".currency-value", ".shop2-review-review-header-currency-value">>],
     [site |-> "walmart.com",
      selectors |-> <<"[data-testid=\"price-current\"]", ".price-current", "[itemprop=\"price\"]">>],
     [site |-> "target.com",
      selectors |-> <<"[data-test=\"product-price\"]", ".h-display-xs">>],
     [site |-> "bestbuy.com",
      selectors |-> <<".pricing-price__range", ".sr-only">>] >>

\* the list returned at lines 70-78
GenericSelectors ==
  <<".price", "[class*=\"price\"]", "[id*=\"price\"]", "[data-testid*=\"price\"]",
    ".amount", ".cost", ".value">>

\* tokens a network location of the model is made of; none of them, and no
\* two of them side by side, holds a site name it is not equal to
HostTokens ==
  {"www.", "shop.", "amazon.com", "AMAZON.COM", "ebay.com", "bestbuy.com", "amazon.co.uk", "["}

\* str.lower() of a token
Lower(t) == IF t = "AMAZON.COM" THEN "amazon.com" ELSE t

\* urlparse(url).netloc: what stands between "//" and the next "/", when the
\* url (after its scheme) starts with "//"; a "[" without "]" in it is a
\* ValueError ("Invalid IPv6 URL")
UrlNetloc(url) ==
  LET rest == IF url # <<>> /\ Head(url) = "https:" THEN Tail(url) ELSE url
      after == IF rest # <<>> /\ Head(rest) = "//" THEN Tail(rest) ELSE <<>>
      stop == IF Contains(after, "/")
                THEN (CHOOSE k \in 1..Len(after) : after[k] = "/" /\ \A j \in 1..(k - 1) : after[j] # "/") - 1
                ELSE Len(after)
      netloc == SubSeq(after, 1, stop)
  IN IF Contains(netloc, "[") THEN [raised |-> TRUE, value |-> <<>>]
     ELSE [raised |-> FALSE, value |-> netloc]

\* _get_domain(url): netloc.lower().replace('www.', ''), '' on any exception
get_domain(url) ==
  LET n == UrlNetloc(url)
  IN IF n.raised THEN <<>>
     ELSE Remove([i \in 1..Len(n.value) |-> Lower(n.value[i])], "www.")

\* mutant: the known sites are searched from the last one
FirstKnownSite_Last(d) ==
  LET known == {i \in 1..Len(price_selectors) : Contains(d, price_selectors[i].site)}
  IN IF known = {} THEN 0 ELSE CHOOSE i \in known : \A j \in known : j <= i

\* for site, selectors in self.price_selectors.items(): if site in domain
\* (0: the loop ends without a hit)
FirstKnownSite(d) ==
  LET known == {i \in 1..Len(price_selectors) : Contains(d, price_selectors[i].site)}
  IN IF known = {} THEN 0 ELSE CHOOSE i \in known : \A j \in known : i <= j

\* if custom_selector: (None and '' are both false)
Truthy(s) == s # None /\ s # Some("")

\* _get_price_selectors(url, custom_selector)
get_price_selectors(url, custom) ==
  IF Truthy(custom) THEN <<custom[1]>>
  ELSE IF FirstKnownSite(get_domain(url)) # 0
    THEN price_selectors[FirstKnownSite(get_domain(url))].selectors
  ELSE GenericSelectors

Hosts == UNION {[1..n -> HostTokens] : n \in 0..MaxHostLen}

Urls ==
  {scheme \o host \o path :
     scheme \in {<<"https:", "//">>, <<"//">>, <<>>},
     host \in Hosts,
     path \in {<<>>, <<"/", "amazon.com">>}}

CustomSelectors == {None, Some(""), Some(".price")}

InitResolve ==
  /\ BatchIdle /\ ManyIdle /\ SchedIdle /\ ParseIdle /\ FallbackIdle /\ ExtractIdle /\ OtherIdle
  /\ res_url \in Urls
  /\ custom_selector \in CustomSelectors
  /\ domain = None
  /\ selectors = <<>>
  /\ resPc = "call"

\* one call: selectors = self._get_price_selectors(url, custom_selector)
GetPriceSelectors ==
  /\ resPc = "call"
  /\ domain' = IF Truthy(custom_selector) THEN None ELSE Some(get_domain(res_url))
  /\ selectors' = get_price_selectors(res_url, custom_selector)
  /\ resPc' = "returned"
  /\ UNCHANGED <<batchVars, manyVars, schedVars, extractVars, parseVars, fallbackVars, otherVars,
                 res_url, custom_selector>>

NextResolve == GetPriceSelectors

SpecResolve == InitResolve /\ [][NextResolve]_vars

(* ------------------------------------------------------------------ *)
(* scraper.py: _fallback_price_extraction                               *)
(* The text of the page is given by what re.findall finds in it for     *)
(* each pattern: matches[p] lists the amounts of pattern p in text      *)
(* order.                                                               *)
(* ------------------------------------------------------------------ *)
MaxMatches == 3

\* price_patterns (lines 208-213), by what each of them looks for
price_patterns == <<"$ amount", "amount $", "USD amount", "amount USD">>

\* amounts the patterns can capture: \d{1,3}(?:,\d{3})*(?:\.\d{2})?
MatchTexts ==
  { <<"0">>,
    <<"5">>,
    <<"0", ".", "0", "1">>,
    <<"9", "9", "9", ",", "9", "9", "9">>,
    <<"9", "9", "9", ",", "9", "9", "9", ".", "9", "9">> }

RECURSIVE Pow10(_)
Pow10(n) == IF n = 0 THEN 1 ELSE 10 * Pow10(n - 1)

\* 0.01 <= num / 10^scale, without leaving the range of the integers
AtLeastOneCent(n) == n.num >= Pow10(IF n.scale > 2 THEN n.scale - 2 ELSE 0)

\* price and 0.01 <= price <= 999999  (line 218)
InPriceRange(v) ==
  /\ v # None /\ v[1].num # 0
  /\ AtLeastOneCent(v[1])
  /\ v[1].num <= 999999 * Pow10(v[1].scale)

\* mutant: the patterns are taken from the last to the first
ScanOrder_Reversed(matches) == matches[4] \o matches[3] \o matches[2] \o matches[1]

\* for pattern in price_patterns: for match in re.findall(pattern, text):
\* the matches in the order the two loops visit them
ScanOrder(matches) == matches[1] \o matches[2] \o matches[3] \o matches[4]

\* _fallback_price_extraction(page): the first visited match in range; None
\* when there is none or when reading the page raised (except, line 222)
fallback_price_extraction(content) ==
  IF content.throws THEN None
  ELSE LET flat == ScanOrder(content.matches)
           hits == {i \in 1..Len(flat) : InPriceRange(clean_price_text(flat[i]).value)}
       IN IF hits = {} THEN None
          ELSE clean_price_text(flat[CHOOSE i \in hits : \A j \in hits : i <= j]).value

\* what the patterns find in a page with at most n amounts in all
MatchLists(n) ==
  LET Found == (1..Len(price_patterns)) \X MatchTexts
      InOrder(f) == \A i \in 1..(Len(f) - 1) : f[i][1] <= f[i + 1][1]
      Flat == {f \in UNION {[1..k -> Found] : k \in 0..n} : InOrder(f)}
      Of(f, p) == LET mine == SelectSeq(f, LAMBDA x : x[1] = p)
                  IN [i \in 1..Len(mine) |-> mine[i][2]]
  IN {[p \in 1..Len(price_patterns) |-> Of(f, p)] : f \in Flat}

Contents(n) ==
  {[throws |-> TRUE, matches |-> [p \in 1..Len(price_patterns) |-> <<>>]]}
    \cup {[throws |-> FALSE, matches |-> m] : m \in MatchLists(n)}

InitFallback ==
  /\ BatchIdle /\ ManyIdle /\ SchedIdle /\ ParseIdle /\ ResolveIdle /\ ExtractIdle /\ OtherIdle
  /\ page_content \in Contents(MaxMatches)
  /\ fbPc = "call"
  /\ fb_price = None

\* one call: price = await self._fallback_price_extraction(page)
FallbackPriceExtraction ==
  /\ fbPc = "call"
  /\ fb_price' = fallback_price_extraction(page_content)
  /\ fbPc' = "returned"
  /\ UNCHANGED <<batchVars, manyVars, schedVars, extractVars, parseVars, resolveVars, otherVars, page_content>>

NextFallback == FallbackPriceExtraction

SpecFallback == InitFallback /\ [][NextFallback]_vars

(* ------------------------------------------------------------------ *)
(* scraper.py: scrape_price                                             *)
(* ------------------------------------------------------------------ *)
MaxElements == 2

\* texts an element of the page can show: no number, zero, two prices
ElementTexts ==
  { <<"a", "b", "c">>,
    <<"0">>,
    <<"$", "9", "9", ".", "9", "9">>,
    <<"1", ",", "5">> }

\* await element.inner_text(): it raises, or it gives the text
ElementReads ==
  {[throws |-> TRUE, text |-> <<>>]} \cup {[throws |-> FALSE, text |-> t] : t \in ElementTexts}

\* await page.query_selector_all(selector): it raises, or it gives the elements
SelectorAnswers(n) ==
  {[throws |-> TRUE, elements |-> <<>>]}
    \cup {[throws |-> FALSE, elements |-> e] : e \in UNION {[1..k -> ElementReads] : k \in 0..n}}

\* the calls of the model: a known site without override (two selectors) and
\* an unknown site with the override products are given by default
ExtractCalls ==
  { [url |-> <<"https:", "//", "www.", "bestbuy.com">>, css |-> None],
    [url |-> <<"https:", "//", "shop.">>, css |-> Some(".price")] }

\* what page.content() holds for the fallback
ExtractContents ==
  { [throws |-> TRUE, matches |-> [p \in 1..Len(price_patterns) |-> <<>>]],
    [throws |-> FALSE, matches |-> [p \in 1..Len(price_patterns) |-> <<>>]],
    [throws |-> FALSE, matches |-> [p \in 1..Len(price_patterns) |-> IF p = 1 THEN << <<"5">> >> ELSE <<>>]],
    [throws |-> FALSE, matches |-> [p \in 1..Len(price_patterns) |-> IF p = 1 THEN << <<"0">> >> ELSE <<>>]] }

\* if price: / if not price:  (None and 0.0 are false)
HasPrice(v) == v # None /\ v[1].num # 0

\* lines 156-164: the elements of one selector, from element i on. reads is the
\* number of inner_text calls made, threw tells that one of them raised.
RECURSIVE ScanElements(_, _)
ScanElements(elems, i) ==
  IF i > Len(elems) THEN [price |-> None, reads |-> Len(elems), threw |-> FALSE]
  ELSE IF elems[i].throws THEN [price |-> None, reads |-> i, threw |-> TRUE]
  ELSE LET extracted_price == clean_price_text(elems[i].text).value
       IN IF extracted_price # None /\ extracted_price[1].num > 0
            THEN [price |-> extracted_price, reads |-> i, threw |-> FALSE]
            ELSE ScanElements(elems, i + 1)

\* mutant: the first element of a selector is passed over
ScanSelector_SkipFirst(answer) ==
  IF answer.throws THEN [price |-> None, reads |-> 0, threw |-> TRUE]
  ELSE ScanElements(answer.elements, 2)

\* lines 153-171: one selector; an exception of the query or of a read is
\* caught and the loop goes on with the next selector
ScanSelector(answer) ==
  IF answer.throws THEN [price |-> None, reads |-> 0, threw |-> TRUE]
  ELSE ScanElements(answer.elements, 1)

\* mutant: leaving the async_playwright() block leaves its browsers running
StopPlaywright_LeavesBrowsers(b) == b

\* leaving the async with async_playwright() block stops the driver, and with
\* it every browser and context it had launched
StopPlaywright(b) == IF b = "open" THEN "closed" ELSE b

InitExtract ==
  /\ BatchIdle /\ ManyIdle /\ SchedIdle /\ ParseIdle /\ ResolveIdle /\ OtherIdle
  /\ fbPc = "idle" /\ fb_price = None
  /\ page_content \in ExtractContents
  /\ \E call \in ExtractCalls :
       /\ x_url = call.url
       /\ x_css = call.css
       /\ page \in [1..Len(get_price_selectors(call.url, call.css)) -> SelectorAnswers(MaxElements)]
       /\ x_result = [url |-> call.url, price |-> None, success |-> FALSE, error |-> None]
  /\ xPc = "start"
  /\ playwright = "none" /\ browser = "none" /\ context = "none"
  /\ x_selectors = <<>> /\ sel_idx = 0 /\ x_price = None
  /\ consulted = <<>> /\ fallback_called = FALSE /\ raised_at = "none"
  /\ idle_wait = "none" /\ settle_delays = 0 /\ stored_readings = <<>>

\* except Exception as e: (lines 186-189), entered from step; on the way the
\* async with block is left
ExceptionAt(step) ==
  /\ x_result' = [x_result EXCEPT !.error = Some("Scraping error")]
  /\ playwright' = IF playwright = "running" THEN "stopped" ELSE playwright
  /\ browser' = StopPlaywright(browser)
  /\ context' = StopPlaywright(context)
  /\ raised_at' = step
  /\ xPc' = "returned"
  /\ UNCHANGED <<x_url, x_css, page, idle_wait, settle_delays, stored_readings, x_selectors, sel_idx, x_price, consulted, fallback_called>>

\* the step went through: only the position and what the step names change
StepTo(next) ==
  /\ xPc' = next
  /\ raised_at' = raised_at

OthersUnchanged ==
  UNCHANGED <<batchVars, manyVars, schedVars, parseVars, resolveVars, fallbackVars, otherVars>>

\* async with async_playwright() as p:
EnterPlaywright ==
  /\ xPc = "start"
  /\ \/ /\ StepTo("launch")
        /\ playwright' = "running"
        /\ UNCHANGED <<x_url, x_css, page, idle_wait, settle_delays, stored_readings, browser, context, x_selectors, sel_idx, x_price, x_result,
                       consulted, fallback_called>>
     \/ ExceptionAt("async_playwright")
  /\ OthersUnchanged

\* browser = await p.chromium.launch(headless=self.headless)
LaunchBrowser ==
  /\ xPc = "launch"
  /\ \/ /\ StepTo("new_context")
        /\ browser' = "open"
        /\ UNCHANGED <<x_url, x_css, page, idle_wait, settle_delays, stored_readings, playwright, context, x_selectors, sel_idx, x_price, x_result,
                       consulted, fallback_called>>
     \/ ExceptionAt("launch")
  /\ OthersUnchanged

\* context = await browser.new_context(...)
NewContext ==
  /\ xPc = "new_context"
  /\ \/ /\ StepTo("new_page")
        /\ context' = "open"
        /\ UNCHANGED <<x_url, x_css, page, idle_wait, settle_delays, stored_readings, playwright, browser, x_selectors, sel_idx, x_price, x_result,
                       consulted, fallback_called>>
     \/ ExceptionAt("new_context")
  /\ OthersUnchanged

\* page = await context.new_page()
NewPage ==
  /\ xPc = "new_page"
  /\ \/ /\ StepTo("goto")
        /\ UNCHANGED <<x_url, x_css, page, idle_wait, settle_delays, stored_readings, playwright, browser, context, x_selectors, sel_idx, x_price,
                       x_result, consulted, fallback_called>>
     \/ ExceptionAt("new_page")
  /\ OthersUnchanged

\* await page.goto(url, ...)
Goto ==
  /\ xPc = "goto"
  /\ \/ /\ StepTo("wait")
        /\ UNCHANGED <<x_url, x_css, page, idle_wait, settle_delays, stored_readings, playwright, browser, context, x_selectors, sel_idx, x_price,
                       x_result, consulted, fallback_called>>
     \/ ExceptionAt("goto")
  /\ OthersUnchanged

\* await self._wait_for_page_load(page), lines 113-121: the network-idle wait
\* and asyncio.sleep(2) stand in one try block, so a timeout of the wait is
\* logged and the sleep is passed over;
\* then selectors = self._get_price_selectors(url, css_selector); price = None
WaitAndResolve ==
  /\ xPc = "wait"
  /\ \E timeout \in BOOLEAN :
       /\ idle_wait' = IF timeout THEN "timeout" ELSE "idle"
       /\ settle_delays' = IF timeout THEN settle_delays ELSE settle_delays + 1
       /\ StepTo("selectors")
       /\ x_selectors' = get_price_selectors(x_url, x_css)
       /\ sel_idx' = 1
       /\ x_price' = None
  /\ UNCHANGED <<x_url, x_css, page, stored_readings, playwright, browser, context, x_result, consulted, fallback_called>>
  /\ OthersUnchanged

\* lines 152-171: one turn of for selector in selectors
TrySelector ==
  /\ xPc = "selectors"
  /\ LET scan == ScanSelector(page[sel_idx]) IN
     /\ x_price' = scan.price
     /\ consulted' = Append(consulted, [selector |-> sel_idx, reads |-> scan.reads, threw |-> scan.threw])
     /\ IF HasPrice(scan.price)
          THEN StepTo("result") /\ sel_idx' = sel_idx
          ELSE IF sel_idx < Len(x_selectors)
            THEN StepTo("selectors") /\ sel_idx' = sel_idx + 1
            ELSE StepTo("fallback") /\ sel_idx' = sel_idx
  /\ UNCHANGED <<x_url, x_css, page, idle_wait, settle_delays, stored_readings, playwright, browser, context, x_selectors, x_result, fallback_called>>
  /\ OthersUnchanged

\* if not price: price = await self._fallback_price_extraction(page)
Fallback ==
  /\ xPc = "fallback"
  /\ StepTo("result")
  /\ x_price' = fallback_price_extraction(page_content)
  /\ fallback_called' = TRUE
  /\ UNCHANGED <<x_url, x_css, page, idle_wait, settle_delays, stored_readings, playwright, browser, context, x_selectors, sel_idx, x_result, consulted>>
  /\ OthersUnchanged

\* lines 177-182: the result dict is filled in
SetResult ==
  /\ xPc = "result"
  /\ StepTo("close")
  /\ x_result' = IF HasPrice(x_price)
                   THEN [x_result EXCEPT !.price = x_price, !.success = TRUE]
                   ELSE [x_result EXCEPT !.error = Some("No price found with any selector")]
  /\ UNCHANGED <<x_url, x_css, page, idle_wait, settle_delays, stored_readings, playwright, browser, context, x_selectors, sel_idx, x_price,
                 consulted, fallback_called>>
  /\ OthersUnchanged

\* await browser.close(), then the end of the async with block; return result
CloseBrowser ==
  /\ xPc = "close"
  /\ \/ /\ StepTo("returned")
        /\ browser' = "closed"
        /\ context' = "closed"
        /\ playwright' = "stopped"
        /\ UNCHANGED <<x_url, x_css, page, idle_wait, settle_delays, stored_readings, x_selectors, sel_idx, x_price, x_result, consulted,
                       fallback_called>>
     \/ ExceptionAt("close")
  /\ OthersUnchanged

\* mutant: the caller stores whatever the result holds
Persists_Always(result) == TRUE

\* scheduler.py line 118: if scrape_result['success']:
Persists(result) == result.success

\* scheduler.py lines 118-122 on the returned result: current_price =
\* scrape_result['price']; self.db.add_price(product.url, current_price).
\* add_price inserts one row, or raises on sqlite3.Error and inserts nothing.
AddPrice ==
  /\ xPc = "returned"
  /\ xPc' = "handled"
  /\ IF Persists(x_result)
       THEN \E inserted \in BOOLEAN :
              stored_readings' = IF inserted THEN Append(stored_readings, x_result.price)
                                 ELSE stored_readings
       ELSE UNCHANGED stored_readings
  /\ UNCHANGED <<x_url, x_css, page, idle_wait, settle_delays, playwright, browser, context,
                 x_selectors, sel_idx, x_price, x_result, consulted, fallback_called, raised_at>>
  /\ OthersUnchanged

NextExtract ==
  \/ EnterPlaywright \/ LaunchBrowser \/ NewContext \/ NewPage \/ Goto \/ WaitAndResolve
  \/ TrySelector \/ Fallback \/ SetResult \/ CloseBrowser \/ AddPrice

SpecExtract == InitExtract /\ [][NextExtract]_vars

(* ------------------------------------------------------------------ *)
(* scheduler.py: main(), the command-line entry point                   *)
(* ------------------------------------------------------------------ *)
\* --mode choices
MainModes == {"daily", "interval", "custom"}

\* values of --cron: not given, empty, an expression of five fields, other text
CronArgs == {None, Some(""), Some("0 */6 * * *"), Some("every day")}

\* CronTrigger.from_crontab(expr) raises ValueError unless expr has five
\* fields it can read
CronParses(expr) == expr = "0 */6 * * *"

\* the command lines of the model (args = parser.parse_args(), line 337)
MainArgs ==
  [mode : MainModes, hour : {0, 9, 23}, minute : {0, 30, 59}, interval : {1, 6, 24},
   cron : CronArgs]

\* add_daily_job / add_interval_job / add_custom_job on self.scheduler = sched:
\* if not self.scheduler: raise ValueError(...); the trigger is built (which
\* can raise ValueError); self.scheduler.add_job(..., id=job_id)
add_job(sched, job_id, trigger_ok) ==
  IF sched = "none" \/ ~trigger_ok
    THEN [raised |-> "ValueError", jobs |-> {}]
    ELSE [raised |-> "none", jobs |-> {job_id}]

\* lines 355-362: the job of the mode is added; custom mode without --cron
\* ends in parser.error, which exits the process with status 2
AddJobForMode(sched, args) ==
  CASE args.mode = "daily" -> add_job(sched, "daily_scrape", TRUE)
    [] args.mode = "interval" -> add_job(sched, "interval_scrape", TRUE)
    [] args.mode = "custom" ->
         IF ~Truthy(args.cron) THEN [raised |-> "SystemExit", jobs |-> {}]
         ELSE add_job(sched, "custom_scrape", CronParses(args.cron[1]))

\* lines 240-266 as main() sees them: start() sets a scheduler up if there is
\* none, returns when that scheduler has no jobs (main then ends, status 0),
\* and else stays in self.scheduler.start() with is_running set
start(sched, added_jobs) ==
  IF sched = "none" \/ added_jobs = {}
    THEN [exit_code |-> Some(0), jobs |-> {}, is_running |-> FALSE]
    ELSE [exit_code |-> None, jobs |-> added_jobs, is_running |-> TRUE]

\* lines 345-374: scheduler = PriceScheduler(...) leaves self.scheduler = None
\* (line 43) and main() calls no setup_scheduler before it adds the job;
\* except Exception: sys.exit(1)
main(args) ==
  LET sched == "none"
      added == AddJobForMode(sched, args)
  IN CASE added.raised = "SystemExit" -> [exit_code |-> Some(2), jobs |-> {}, is_running |-> FALSE]
       [] added.raised = "ValueError" -> [exit_code |-> Some(1), jobs |-> {}, is_running |-> FALSE]
       [] OTHER -> start(sched, added.jobs)

InitMain ==
  /\ BatchIdle /\ ManyIdle /\ SchedIdle
  /\ ParseIdle /\ ResolveIdle /\ FallbackIdle /\ ExtractIdle
  /\ NotifyIdle /\ StoreIdle
  /\ argv \in MainArgs
  /\ mainPc = "start"
  /\ main_result = [exit_code |-> None, jobs |-> {}, is_running |-> FALSE]

\* python scheduler.py <arguments>
RunMain ==
  /\ mainPc = "start"
  /\ main_result' = main(argv)
  /\ mainPc' = "done"
  /\ UNCHANGED <<batchVars, manyVars, schedVars, parseVars, resolveVars, fallbackVars, extractVars,
                 notifyVars, storeVars, argv>>

NextMain == RunMain

SpecMain == InitMain /\ [][NextMain]_vars

\* custom mode without a recurrence expression, or with one that does not parse
InvalidConfiguration(args) ==
  args.mode = "custom" /\ (args.cron \in {None, Some("")} \/ ~CronParses(args.cron[1]))

JobOfMode(args) ==
  CASE args.mode = "daily" -> "daily_scrape"
    [] args.mode = "interval" -> "interval_scrape"
    [] args.mode = "custom" -> "custom_scrape"

\* C23 as stated: main() ends with a non-zero status exactly when the
\* configuration is invalid; with a valid one the job of the mode is
\* registered and the orchestrator stays running (no exit status yet).
C23_NonZeroExitIffInvalidConfiguration ==
  mainPc = "done" =>
    /\ (main_result.exit_code \notin {None, Some(0)}) <=> InvalidConfiguration(argv)
    /\ ~InvalidConfiguration(argv) =>
         /\ main_result.exit_code = None
         /\ main_result.is_running
         /\ main_result.jobs = {JobOfMode(argv)}

(* ------------------------------------------------------------------ *)
(* notifier.py: send_price_change_notification, send_scraping_summary   *)
(* ------------------------------------------------------------------ *)
\* what the constructors find in their arguments or in the environment
Credentials ==
  [email : {"", "me@example.com"}, password : {"", "secret"}, recipient : {"", "you@example.com"},
   bot_token : {"", "token"}, chat_id : {"", "42"}]

\* EmailNotifier.__init__, lines 38-42
EmailEnabled(c) == ~(c.email = "" \/ c.password = "")

\* TelegramNotifier.__init__, lines 89-93
TelegramEnabled(c) == ~(c.bot_token = "" \/ c.chat_id = "")

\* if self.email_notifier.enabled and self.recipient_email: (lines 202, 266)
EmailAttempted(c) == EmailEnabled(c) /\ c.recipient # ""

\* mutant: Telegram is only tried when the email was not delivered
TelegramAttempted_UnlessEmailSucceeded(c, sent) == TelegramEnabled(c) /\ ~sent

\* if self.telegram_notifier.enabled: (lines 208, 272), whatever success_email is
TelegramAttempted(c, sent) == TelegramEnabled(c)

\* return success_email or success_telegram (lines 211, 275)
NotifyResult(e, t) == e \/ t

\* the call has built its messages and set success_email = success_telegram = False
InitNotify ==
  /\ BatchIdle /\ ManyIdle /\ SchedIdle
  /\ ParseIdle /\ ResolveIdle /\ FallbackIdle /\ ExtractIdle
  /\ MainIdle /\ StoreIdle
  /\ credentials \in Credentials
  /\ notify_kind \in {"change", "summary"}
  /\ notifyPc = "email"
  /\ attempts = <<>>
  /\ success_email = FALSE /\ success_telegram = FALSE
  /\ notify_ret = None

NotifyOthersUnchanged ==
  UNCHANGED <<batchVars, manyVars, schedVars, parseVars, resolveVars, fallbackVars, extractVars,
              mainVars, storeVars, credentials, notify_kind>>

\* lines 201-205 / 265-269: send_email gives True, or False when the SMTP
\* exchange raised (it catches every Exception, lines 72-74)
SendEmail ==
  /\ notifyPc = "email"
  /\ notifyPc' = "telegram"
  /\ IF EmailAttempted(credentials)
       THEN \E delivered \in BOOLEAN :
              /\ success_email' = delivered
              /\ attempts' = Append(attempts, [channel |-> "email", delivered |-> delivered])
       ELSE UNCHANGED <<success_email, attempts>>
  /\ UNCHANGED <<success_telegram, notify_ret>>
  /\ NotifyOthersUnchanged

\* lines 207-209 / 271-273: send_message gives True, or False when the HTTP
\* request raised or answered an error status (lines 115-117)
SendTelegram ==
  /\ notifyPc = "telegram"
  /\ notifyPc' = "return"
  /\ IF TelegramAttempted(credentials, success_email)
       THEN \E delivered \in BOOLEAN :
              /\ success_telegram' = delivered
              /\ attempts' = Append(attempts, [channel |-> "telegram", delivered |-> delivered])
       ELSE UNCHANGED <<success_telegram, attempts>>
  /\ UNCHANGED <<success_email, notify_ret>>
  /\ NotifyOthersUnchanged

\* lines 211 / 275
NotifyReturn ==
  /\ notifyPc = "return"
  /\ notifyPc' = "returned"
  /\ notify_ret' = Some(NotifyResult(success_email, success_telegram))
  /\ UNCHANGED <<success_email, success_telegram, attempts>>
  /\ NotifyOthersUnchanged

NextNotify == SendEmail \/ SendTelegram \/ NotifyReturn

SpecNotify == InitNotify /\ [][NextNotify]_vars

\* the channels that have all they need for a delivery
ConfiguredChannels ==
  (IF credentials.email # "" /\ credentials.password # "" /\ credentials.recipient # ""
     THEN {"email"} ELSE {})
  \cup (IF credentials.bot_token # "" /\ credentials.chat_id # "" THEN {"telegram"} ELSE {})

AttemptsOn(ch) == Cardinality({k \in DOMAIN attempts : attempts[k].channel = ch})

\* C21: when a notification call (change or summary) returns, a delivery was
\* attempted once on every configured channel and on no other, also after a
\* success on the other channel; the value returned is true iff one of the
\* attempts delivered; with no channel configured nothing was attempted and
\* false is returned; the call always gets to its return.
C21_EveryConfiguredChannelTriedResultIsOr ==
  /\ notifyPc \in {"return", "returned"} =>
       \A ch \in {"email", "telegram"} :
         AttemptsOn(ch) = IF ch \in ConfiguredChannels THEN 1 ELSE 0
  /\ notifyPc = "returned" =>
       /\ notify_ret = Some(\E k \in DOMAIN attempts : attempts[k].delivered)
       /\ ConfiguredChannels = {} => (attempts = <<>> /\ notify_ret = Some(FALSE))
  /\ notifyPc \in {"email", "telegram", "return"} => ENABLED NextNotify

\* C21 witness: both channels configured, the email was delivered, Telegram
\* was tried all the same and failed, and the call returned true.
C21_Witness ==
  /\ notifyPc = "returned" /\ ConfiguredChannels = {"email", "telegram"}
  /\ attempts = << [channel |-> "email", delivered |-> TRUE],
                   [channel |-> "telegram", delivered |-> FALSE] >>
  /\ notify_ret = Some(TRUE)

(* ------------------------------------------------------------------ *)
(* Properties of _clean_price_text (SpecParse)                          *)
(* ------------------------------------------------------------------ *)
\* the characters of the text that can belong to a number
CleanedForm(text) == SelectSeq(text, LAMBDA x : IsDigit(x) \/ x \in {",", "."})

OnlyDigits(s) == SelectSeq(s, IsDigit)

\* the number the digits of s denote with the decimal point at position point
\* (point = Len(s): no decimal part); None when s has no digit
ReadWithPointAt(s, point) ==
  IF OnlyDigits(s) = <<>> THEN None
  ELSE Some(Num(DigitsToInt(OnlyDigits(s)), Len(OnlyDigits(SubSeq(s, point + 1, Len(s))))))

LastSeparator(s) == CHOOSE i \in 1..Len(s) : s[i] \in {",", "."} /\ \A j \in (i + 1)..Len(s) : s[j] \notin {",", "."}

\* C17: when the cleaned text holds both a comma and a period, the separator
\* that occurs last is the decimal point and the other one is dropped: the
\* result is the digits read with the point at the last separator (null when
\* that separator occurs more than once or there is no digit), so "1,234.56"
\* and "1.234,56" give 1234.56 and "$99.99" gives 99.99.
C17_LastSeparatorIsDecimalPoint ==
  parsePc = "returned" =>
    LET s == CleanedForm(price_text) IN
    /\ (Contains(s, ",") /\ Contains(s, ".")) =>
         /\ ~parsed.raised
         /\ parsed.value = IF Count(s, s[LastSeparator(s)]) = 1
                             THEN ReadWithPointAt(s, LastSeparator(s))
                             ELSE None
    /\ price_text = <<"1", ",", "2", "3", "4", ".", "5", "6">> => parsed.value = Some(Num(123456, 2))
    /\ price_text = <<"1", ".", "2", "3", "4", ",", "5", "6">> => parsed.value = Some(Num(123456, 2))
    /\ price_text = <<"$", "9", "9", ".", "9", "9">> => parsed.value = Some(Num(9999, 2))

C17_Witness ==
  /\ parsePc = "returned"
  /\ price_text = <<"1", ".", "2", "3", "4", ",", "5", "6">>
  /\ parsed.value = Some(Num(123456, 2))

\* C18 as stated: with a comma and no period, the comma is the decimal point
\* only for a single comma followed by exactly two digits; otherwise the
\* commas are dropped.
C18_DecimalCommaNeedsExactlyTwoDigits ==
  parsePc = "returned" =>
    LET s == CleanedForm(price_text) IN
    (Contains(s, ",") /\ ~Contains(s, ".")) =>
       /\ ~parsed.raised
       /\ parsed.value = IF Count(s, ",") = 1 /\ Len(s) - LastSeparator(s) = 2
                           THEN ReadWithPointAt(s, LastSeparator(s))
                           ELSE ReadWithPointAt(s, Len(s))

\* C18 amended: with a comma and no period, the comma is the decimal point
\* when it is the only comma and at most two digits follow it; otherwise
\* (three or more digits after it, several commas) the commas are dropped.
C18_DecimalCommaNeedsAtMostTwoDigits ==
  parsePc = "returned" =>
    LET s == CleanedForm(price_text) IN
    (Contains(s, ",") /\ ~Contains(s, ".")) =>
       /\ ~parsed.raised
       /\ parsed.value = IF Count(s, ",") = 1 /\ Len(s) - LastSeparator(s) <= 2
                           THEN ReadWithPointAt(s, LastSeparator(s))
                           ELSE ReadWithPointAt(s, Len(s))

C18_Witness ==
  /\ parsePc = "returned"
  /\ price_text = <<" ", "1", "2", ",", "5", " ">>
  /\ parsed.value = Some(Num(125, 1))

\* C19 as stated: the parser never raises and returns null or a strictly
\* positive number; a text that denotes zero or a negative amount gives null.
C19_NullOrStrictlyPositive ==
  parsePc = "returned" =>
    /\ ~parsed.raised
    /\ parsed.value = None \/ parsed.value[1].num > 0
    /\ (price_text # <<>> /\ Head(price_text) = "-") => parsed.value = None

(* ------------------------------------------------------------------ *)
(* Properties of _get_price_selectors (SpecResolve)                     *)
(* ------------------------------------------------------------------ *)
KnownIn(d) == {i \in 1..Len(price_selectors) : \E k \in 1..Len(d) : d[k] = price_selectors[i].site}

\* C16: the call returns exactly [override] for a non-empty override;
\* otherwise the list of the first known site, in declaration order, that
\* occurs in the url's domain; otherwise the generic list; never an empty list.
C16_OverrideThenFirstKnownSiteThenGeneric ==
  resPc = "returned" =>
    /\ selectors # <<>>
    /\ IF custom_selector # None /\ custom_selector[1] # ""
         THEN selectors = <<custom_selector[1]>>
         ELSE /\ domain # None
              /\ LET known == KnownIn(domain[1]) IN
                 IF known # {}
                   THEN \E i \in known :
                          /\ \A j \in known : i <= j
                          /\ selectors = price_selectors[i].selectors
                   ELSE selectors = GenericSelectors

\* a url whose domain holds two known sites, the later-declared one first
C16_Witness ==
  /\ resPc = "returned"
  /\ res_url = <<"https:", "//", "www.", "ebay.com", "AMAZON.COM">>
  /\ custom_selector = Some("")
  /\ domain = Some(<<"ebay.com", "amazon.com">>)
  /\ selectors[1] = ".a-price-whole"

(* ------------------------------------------------------------------ *)
(* Properties of _fallback_price_extraction (SpecFallback)              *)
(* ------------------------------------------------------------------ *)
\* v lies in [0.01, 999999]
WithinRange(v) ==
  /\ v # None
  /\ \/ v[1].scale <= 2 /\ v[1].num >= 1
     \/ v[1].scale > 2 /\ v[1].num >= Pow10(v[1].scale - 2)
  /\ v[1].num \div Pow10(v[1].scale) < 999999
     \/ (v[1].num \div Pow10(v[1].scale) = 999999 /\ v[1].num % Pow10(v[1].scale) = 0)

\* match i of pattern p is visited before match k of pattern q
Before(p, i, q, k) == p < q \/ (p = q /\ i < k)

\* C15: the fallback returns the parse of the first match, patterns in
\* declaration order and the matches of a pattern in text order, whose value
\* lies in [0.01, 999999]; matches outside the range are passed over; it
\* returns null when no match is in range or when reading the page throws.
C15_FirstMatchInRange ==
  fbPc = "returned" =>
    LET m == page_content.matches
        At(p, i) == clean_price_text(m[p][i]).value
        Qualifying == {x \in (1..4) \X (1..MaxMatches + 1) :
                         x[2] <= Len(m[x[1]]) /\ WithinRange(At(x[1], x[2]))}
    IN IF page_content.throws \/ Qualifying = {}
         THEN fb_price = None
         ELSE \E x \in Qualifying :
                /\ \A y \in Qualifying : y = x \/ Before(x[1], x[2], y[1], y[2])
                /\ fb_price = At(x[1], x[2])

\* a page whose first amounts are zero and above the ceiling
C15_Witness ==
  /\ fbPc = "returned"
  /\ ~page_content.throws
  /\ page_content.matches[1] = << <<"0">>, <<"9", "9", "9", ",", "9", "9", "9", ".", "9", "9">> >>
  /\ page_content.matches[3] = << <<"0", ".", "0", "1">> >>
  /\ fb_price = Some(Num(1, 2))

(* ------------------------------------------------------------------ *)
(* Properties of scrape_price (SpecExtract)                             *)
(* ------------------------------------------------------------------ *)
\* C12 as stated: every outcome scrape_price returns is either success with a
\* price above zero and no error, or failure with no price and a non-empty
\* error (in the model the call always returns: every exception is caught).
C12_OutcomeHasOneOfTwoShapes ==
  xPc = "returned" =>
    \/ /\ x_result.success
       /\ x_result.price # None /\ x_result.price[1].num > 0
       /\ x_result.error = None
    \/ /\ ~x_result.success
       /\ x_result.price = None
       /\ x_result.error # None /\ x_result.error[1] # ""

\* C13: when scrape_price has returned, the browser and the browser context
\* it created are no longer open, whether a price was found, none was found,
\* or a step after the launch raised.
C13_BrowserTornDownOnReturn ==
  xPc = "returned" => browser # "open" /\ context # "open"

\* the navigation raised with browser and context open
C13_Witness ==
  /\ xPc = "returned"
  /\ raised_at = "goto"
  /\ browser = "closed" /\ context = "closed"

\* what the text of element i of selector k parses to
ParseOf(k, i) == clean_price_text(page[k].elements[i].text).value

\* element i of selector k can be read and shows a positive number
Positive(k, i) ==
  /\ ~page[k].throws /\ i \in 1..Len(page[k].elements)
  /\ ~page[k].elements[i].throws
  /\ ParseOf(k, i) # None /\ ParseOf(k, i)[1].num > 0

\* handling selector k throws before a positive number is met
Throws(k) ==
  \/ page[k].throws
  \/ \E i \in 1..Len(page[k].elements) :
       page[k].elements[i].throws /\ \A j \in 1..(i - 1) : ~Positive(k, j)

\* selector k yields a price: it is not skipped and has a positive element
Yields(k) == ~Throws(k) /\ \E i \in 1..Len(page[k].elements) : Positive(k, i)

\* C14: once the cascade is over, the price is the parse of the first element
\* text, selectors in resolved order and elements in document order, that
\* parses to a positive number; nothing is consulted after it; a selector
\* that throws is skipped; the fallback is called only when no selector
\* yielded a price.
C14_FirstPositiveElementWins ==
  xPc \in {"result", "close"} =>
    LET sels == get_price_selectors(x_url, x_css)
        yielding == {k \in 1..Len(sels) : Yields(k)}
    IN /\ x_selectors = sels
       /\ IF yielding # {}
            THEN \E k \in yielding : \E i \in 1..Len(page[k].elements) :
                   /\ \A j \in yielding : k <= j
                   /\ Positive(k, i) /\ \A j \in 1..(i - 1) : ~Positive(k, j)
                   /\ x_price = ParseOf(k, i)
                   /\ ~fallback_called
                   /\ Len(consulted) = k
                   /\ consulted[k].reads = i
            ELSE /\ fallback_called
                 /\ Len(consulted) = Len(sels)
       /\ \A n \in 1..Len(consulted) :
            /\ consulted[n].selector = n
            /\ consulted[n].threw = Throws(n)

\* the first selector has a zero and then an element that cannot be read; the
\* second one shows an unparsable text and then the price
C14_Witness ==
  /\ xPc = "close"
  /\ Len(page) = 2
  /\ ~page[1].throws /\ Len(page[1].elements) = 2
  /\ page[1].elements[1] = [throws |-> FALSE, text |-> <<"0">>]
  /\ page[1].elements[2].throws
  /\ ~page[2].throws /\ Len(page[2].elements) = 2
  /\ page[2].elements[1] = [throws |-> FALSE, text |-> <<"a", "b", "c">>]
  /\ page[2].elements[2] = [throws |-> FALSE, text |-> <<"1", ",", "5">>]
  /\ x_result.price = Some(Num(15, 1))
  /\ ~fallback_called

(* ------------------------------------------------------------------ *)
(* database.py: get_price_change                                        *)
(* ------------------------------------------------------------------ *)
\* lines 182-197, for the rows get_prices(url, limit=2) returned (newest first)
price_change_of(rows) ==
  IF Len(rows) < 2 THEN None
  ELSE Some([current_price |-> rows[1], previous_price |-> rows[2],
             change_amount |-> rows[1] - rows[2],
             change_percentage |-> [num |-> (rows[1] - rows[2]) * 100, den |-> rows[2]]])

\* get_price_change(url)
get_price_change(url) == price_change_of(get_prices(url, 2))

(* ------------------------------------------------------------------ *)
(* database.py: the prices table of one url with its timestamps.        *)
(* timestamp is filled by DEFAULT CURRENT_TIMESTAMP, which has a        *)
(* resolution of one second; get_prices sorts by timestamp alone, and   *)
(* SQL leaves the order of rows with equal sort keys open.              *)
(* ------------------------------------------------------------------ *)
MaxRows == 3
MaxClock == 2

\* prices the appended readings can have
ReadingPrices == {85, 100}

\* the orders in which ORDER BY timestamp DESC can deliver the rows rws
TimestampDescOrders(rws) ==
  {[k \in 1..Len(rws) |-> rws[f[k]]] :
     f \in {g \in [1..Len(rws) -> 1..Len(rws)] :
              /\ \A a, b \in 1..Len(rws) : a # b => g[a] # g[b]
              /\ \A a, b \in 1..Len(rws) : a < b => rws[g[a]].timestamp >= rws[g[b]].timestamp}}

\* LIMIT ?, and the price of each PriceEntry
LimitPrices(ordered, limit) ==
  [k \in 1..(IF Len(ordered) < limit THEN Len(ordered) ELSE limit) |-> ordered[k].price]

InitStore ==
  /\ BatchIdle /\ ManyIdle /\ SchedIdle
  /\ ParseIdle /\ ResolveIdle /\ FallbackIdle /\ ExtractIdle
  /\ MainIdle /\ NotifyIdle
  /\ price_rows = <<>> /\ clock = 0 /\ latest = None /\ recent = <<>> /\ change = None

StoreOthersUnchanged ==
  UNCHANGED <<batchVars, manyVars, schedVars, parseVars, resolveVars, fallbackVars, extractVars,
              mainVars, notifyVars>>

\* a second goes by
Tick ==
  /\ clock < MaxClock
  /\ clock' = clock + 1
  /\ UNCHANGED <<price_rows, latest, recent, change>>
  /\ StoreOthersUnchanged

\* add_price(url, price), lines 118-142: INSERT INTO prices (url, price,
\* product_id); id is the next AUTOINCREMENT value and timestamp the current
\* second.  (The answers of earlier queries are forgotten.)
AddReading ==
  /\ Len(price_rows) < MaxRows
  /\ \E p \in ReadingPrices :
       price_rows' = Append(price_rows, [id |-> Len(price_rows) + 1, price |-> p, timestamp |-> clock])
  /\ latest' = None /\ recent' = <<>> /\ change' = None
  /\ UNCHANGED clock
  /\ StoreOthersUnchanged

\* get_latest_price(url), get_prices(url, 2) and get_price_change(url), lines
\* 144-201: three SELECTs, each delivering the rows in one of the orders its
\* ORDER BY allows
QueryStore ==
  /\ price_rows # <<>> /\ latest = None
  /\ \E o1, o2, o3 \in TimestampDescOrders(price_rows) :
       /\ latest' = Some(LimitPrices(o1, 1)[1])
       /\ recent' = LimitPrices(o2, 2)
       /\ change' = price_change_of(LimitPrices(o3, 2))
  /\ UNCHANGED <<price_rows, clock>>
  /\ StoreOthersUnchanged

NextStore == Tick \/ AddReading \/ QueryStore

SpecStore == InitStore /\ [][NextStore]_vars

\* C28 as stated: once two readings have been appended, whatever their
\* timestamps, get_latest_price answers the later one, get_prices(url, 2)
\* the later one followed by the earlier one, and get_price_change reports the
\* later one as current and the earlier one as previous.
C28_NewestFirstWhateverTheTiming ==
  (latest # None /\ Len(price_rows) >= 2) =>
    LET n == Len(price_rows)
        p2 == price_rows[n].price
        p1 == price_rows[n - 1].price
    IN /\ latest = Some(p2)
       /\ recent = <<p2, p1>>
       /\ change # None
       /\ change[1].current_price = p2
       /\ change[1].previous_price = p1

(* ------------------------------------------------------------------ *)
(* Properties of the statistics and of the change evaluation (Spec)     *)
(* ------------------------------------------------------------------ *)
\* C11 as stated: when a run over at least one product has returned, the
\* statistics (zero at process start) have grown by the run: total attempts
\* by the number of items processed, successes and failures by the run's
\* successful and failed counts, and last-run is set.
C11_StatisticsReflectTheRun ==
  (pc = "returned" /\ products # <<>>) =>
    /\ stats.total_scrapes = Len(products)
    /\ stats.successful_scrapes = ret[1].successful
    /\ stats.failed_scrapes = ret[1].failed
    /\ stats.last_run = 1

\* the fraction p equals the number n
IsNumber(p, n) == p.den > 0 /\ p.num = n * p.den

\* the two documented examples, on the orchestrator's and on the store's formula
C20_Examples ==
  /\ ChangeInfo(1, 100, 85).change_amount = -15
  /\ IsNumber(ChangeInfo(1, 100, 85).change_percentage, -15)
  /\ ChangeInfo(1, 100, 105).change_amount = 5
  /\ IsNumber(ChangeInfo(1, 100, 105).change_percentage, 5)
  /\ price_change_of(<<85, 100>>)[1].change_amount = -15
  /\ IsNumber(price_change_of(<<85, 100>>)[1].change_percentage, -15)
  /\ price_change_of(<<105, 100>>)[1].change_amount = 5
  /\ IsNumber(price_change_of(<<105, 100>>)[1].change_percentage, 5)

\* C20: every change the run puts on price_changes, and every change the
\* store computes from the two newest readings of a url, has change_amount =
\* current - previous and change_percentage = change_amount / previous * 100;
\* the store computes it for any two readings, below the threshold as well;
\* from 100 to 85 it is -15 and -15.0, from 100 to 105 it is 5 and 5.0.
\* (The store is looked at whenever the loop stands between two items, which
\* is where it can have changed; the examples are evaluated before the run.)
C20_ChangeIsDifferenceAndRelativeToPrevious ==
  /\ \A k \in DOMAIN results.price_changes :
       LET c == results.price_changes[k] IN
       /\ c.change_amount = c.current_price - c.previous_price
       /\ c.change_percentage.den = c.previous_price
       /\ c.change_percentage.num = c.change_amount * 100
  /\ pc \in {"idle", "lookup", "finish"} =>
       \A u \in DOMAIN prices :
         LET h == prices[u]
             n == Len(h)
         IN get_price_change(u) =
              IF n < 2 THEN None
              ELSE Some([current_price |-> h[n], previous_price |-> h[n - 1],
                         change_amount |-> h[n] - h[n - 1],
                         change_percentage |-> [num |-> (h[n] - h[n - 1]) * 100, den |-> h[n - 1]]])
  /\ pc = "idle" => C20_Examples

\* one url went from 100 to 105 with an event, another from 100 to 104 without
C20_Witness ==
  /\ pc = "finish"
  /\ \E k \in DOMAIN results.price_changes :
       /\ results.price_changes[k].previous_price = 100
       /\ results.price_changes[k].current_price = 105
       /\ results.price_changes[k].change_amount = 5
       /\ IsNumber(results.price_changes[k].change_percentage, 5)
       /\ get_price_change(results.price_changes[k].url) # None
       /\ get_price_change(results.price_changes[k].url)[1].change_amount = 5
  /\ \E u \in DOMAIN prices :
       /\ prices[u] = <<100, 104>>
       /\ get_price_change(u) # None
       /\ get_price_change(u)[1].change_amount = 4
       /\ \A k \in DOMAIN results.price_changes : results.price_changes[k].url # u

\* C29 as stated: notifications_sent counts exactly the change notifications
\* the transport reported as delivered; an undelivered or raising call, a run
\* without notification manager and the summary add nothing.
C29_NotificationsSentCountsDeliveries ==
  stats.notifications_sent = Cardinality({k \in DOMAIN log : log[k].notify = "delivered"})

\* C26: while an item is being extracted and handled, the previous price held
\* by the run is the reading the store held before the run touched the item
\* (or none), and nothing has been appended for the item yet; every
\* ChangeEvent was decided against that reading and carries it, never the
\* reading the run wrote itself.
C26_PreviousIsReadBeforeExtractionAndAppend ==
  /\ pc \in {"scrape", "handle"} =>
       /\ previous_price \in {None, get_latest_price(products[idx])}
       /\ prices[products[idx]] \in InitHistories
       /\ \A k \in DOMAIN log : log[k].url # products[idx]
  /\ pc \in {"lookup", "finish"} =>
       \A k \in DOMAIN log :
         LET e == log[k] IN
         /\ e.outcome \in {"success", "failed"} => e.previous \in {None, e.stored}
         /\ e.persisted =>
              /\ e.event <=> ChangeExpected(e, e.previous)
              /\ e.event =>
                   \E j \in DOMAIN results.price_changes :
                     /\ results.price_changes[j].url = e.url
                     /\ Some(results.price_changes[j].previous_price) = e.stored
                     /\ e.stored # e.price

\* C26 witness: an item with stored reading 100 was read, extracted at 95 and
\* stored, and its event compares against 100.
C26_Witness ==
  /\ pc = "finish"
  /\ \E k \in DOMAIN log :
       /\ log[k].stored = <<100>> /\ log[k].previous = <<100>> /\ log[k].price = <<95>>
       /\ log[k].event /\ prices[log[k].url] = <<100, 95>>
       /\ \E j \in DOMAIN results.price_changes :
            /\ results.price_changes[j].url = log[k].url
            /\ results.price_changes[j].previous_price = 100

(* ------------------------------------------------------------------ *)
(* Properties of the page-load wait and of what is stored (SpecExtract) *)
(* ------------------------------------------------------------------ *)
\* C27 as stated: no selector is consulted before the network-idle wait has
\* ended, and once it has ended, in time or by its timeout, the settle delay
\* has been applied exactly once.
C27_SettleDelayOnceBeforeCascade ==
  /\ consulted # <<>> => idle_wait # "none"
  /\ idle_wait # "none" => settle_delays = 1

\* C25: every reading stored from an extraction is a number greater than
\* zero: a result without price, or with price zero, is never stored.
C25_StoredReadingsArePositive ==
  /\ \A k \in DOMAIN stored_readings :
       /\ stored_readings[k] # None
       /\ stored_readings[k][1].num > 0
  /\ (xPc = "handled" /\ ~HasPrice(x_result.price)) => stored_readings = <<>>

\* C25 witness: a page whose first element read "0" and whose next read
\* "$99.99" was extracted, and 99.99 was stored.
C25_Witness ==
  /\ xPc = "handled"
  /\ stored_readings = << Some(Num(9999, 2)) >>
  /\ \E k \in DOMAIN page :
       /\ ~page[k].throws /\ Len(page[k].elements) = 2
       /\ ~page[k].elements[1].throws /\ page[k].elements[1].text = <<"0">>

====
